---- MODULE Spec2Model ----
(***************************************************************************)
(* Model of the text pipeline of uz_tts: the chunker of                    *)
(* bot/text_splitter.py, the numeral converter of bot/numbers.py, the     *)
(* acronym speller of bot/acronyms.py, the transliterator of              *)
(* bot/transliterate.py and their composition in bot/tts_engine.py.       *)
(*                                                                         *)
(* A Python str is held run-length encoded: a sequence of runs            *)
(* [ch |-> character, n |-> repetitions], n >= 1, neighbouring runs of     *)
(* different characters.  Every string operation of the code (len, +,      *)
(* strip, split, slicing, re.split) is computed on that encoding, so the   *)
(* thresholds 2000 and 3000 of the code are the model's thresholds.        *)
(***************************************************************************)
EXTENDS Integers, Sequences, FiniteSets, TLC

VARIABLES
    text,            \* split_text: the argument text
    arg_max_length,  \* split_text: max_length as the caller passed it
    max_length,      \* split_text: the local max_length (clamped on entry)
    sentences,       \* split_text: reconstructed_sentences not yet visited
    chunks,          \* split_text: the list chunks
    current_chunk,   \* split_text: the string current_chunk
    origin,          \* history: for each element of chunks, how it was built
    cur_origin,      \* history: how current_chunk was built
    result,          \* split_text: the returned list
    pc,              \* split_text: "entry", "loop" or "done"
    num,             \* number_to_uzbek_words: the argument num
    words,           \* number_to_uzbek_words: the returned string
    npc              \* number_to_uzbek_words: "call" or "done"

VARIABLES
    ctext,           \* convert_numbers_in_text: the argument text
    cmid,            \* convert_numbers_in_text: result after the ordinal pass
    cout,            \* convert_numbers_in_text: the returned string
    cpc,             \* "call", "ordinals_done", "done" or "raised"
    atext,           \* process_acronyms_in_text: the argument text
    aout,            \* process_acronyms_in_text: the returned string
    apc,             \* "call" or "done"
    ttext,           \* latin_to_cyrillic, transliterate_if_latin: the argument
    lres,            \* latin_to_cyrillic: the local result
    lpc,             \* "call", "apostrophes_done", "multi_done" or "done"
    dres,            \* transliterate_if_latin: the returned pair
    dpc,             \* "call" or "done"
    ptext,           \* _generate_speech: the argument text
    pacr,            \* _generate_speech: text_with_acronyms
    pnum,            \* _generate_speech: text_with_words
    pcyr,            \* _generate_speech: cyrillic_text
    pwas,            \* _generate_speech: was_latin
    ppc              \* "acronyms", "numbers", "translit", "done" or "raised"

VARIABLES
    stext,           \* detect_script: the argument text
    sres,            \* detect_script: the returned string
    spc,             \* "call" or "done"
    mtext,           \* handle_channel_post: message.text
    mbot,            \* handle_channel_post: message.from_user.is_bot
    mclean,          \* process_text: cleaned
    mscript,         \* process_text: script, which is logged
    mres,            \* handle_channel_post: processed_text
    mpc              \* "entry", "validate", "queue", "queued", "failed",
                     \* "skipped" or "ignored"

VARIABLES
    tts_count,       \* usage_stats.tts_count of the user's row of the month
    rpc,             \* for each private message, how far its request is
    rusage           \* complete_tts_task_sync: usage.tts_count as read

VARIABLES
    payments,        \* the rows of the payments table, by id
    subscriptions    \* the rows of the subscriptions table, by id

splitVars == <<text, arg_max_length, max_length, sentences, chunks,
               current_chunk, origin, cur_origin, result, pc>>
numVars == <<num, words, npc>>
convVars == <<ctext, cmid, cout, cpc>>
acrVars == <<atext, aout, apc>>
transVars == <<ttext, lres, lpc, dres, dpc>>
pipeVars == <<ptext, pacr, pnum, pcyr, pwas, ppc>>
procVars == <<stext, sres, spc, mtext, mbot, mclean, mscript, mres, mpc>>
subVars == <<tts_count, rpc, rusage>>
payVars == <<payments, subscriptions>>
vars == <<splitVars, numVars, convVars, acrVars, transVars, pipeVars,
          procVars, subVars, payVars>>
\* What a step of each component leaves alone.
notSplitVars == <<numVars, convVars, acrVars, transVars, pipeVars, procVars,
                  subVars, payVars>>
notNumVars == <<splitVars, convVars, acrVars, transVars, pipeVars, procVars,
                subVars, payVars>>
notConvVars == <<splitVars, numVars, acrVars, transVars, pipeVars, procVars,
                 subVars, payVars>>
notAcrVars == <<splitVars, numVars, convVars, transVars, pipeVars, procVars,
                subVars, payVars>>
notTransVars == <<splitVars, numVars, convVars, acrVars, pipeVars, procVars,
                  subVars, payVars>>
notPipeVars == <<splitVars, numVars, convVars, acrVars, transVars, procVars,
                 subVars, payVars>>
notProcVars == <<splitVars, numVars, convVars, acrVars, transVars, pipeVars,
                 subVars, payVars>>
notSubVars == <<splitVars, numVars, convVars, acrVars, transVars, pipeVars,
                procVars, payVars>>
notPayVars == <<splitVars, numVars, convVars, acrVars, transVars, pipeVars,
                procVars, subVars>>

\* A component that is not called.
IdleConv == ctext = <<>> /\ cmid = <<>> /\ cout = <<>> /\ cpc = "idle"
IdleAcr == atext = <<>> /\ aout = <<>> /\ apc = "idle"
IdleTrans ==
    /\ ttext = <<>> /\ lres = <<>> /\ lpc = "idle"
    /\ dres = <<<<>>, FALSE>> /\ dpc = "idle"
IdlePipe ==
    /\ ptext = <<>> /\ pacr = <<>> /\ pnum = <<>> /\ pcyr = <<>>
    /\ pwas = FALSE /\ ppc = "idle"
IdleProc ==
    /\ stext = <<>> /\ sres = "" /\ spc = "idle"
    /\ mtext = <<>> /\ mbot = FALSE /\ mclean = <<>> /\ mscript = ""
    /\ mres = <<>> /\ mpc = "idle"
IdleSub == tts_count = 0 /\ rpc = <<>> /\ rusage = <<>>
IdlePay == payments = <<>> /\ subscriptions = <<>>

(***************************************************************************)
(* Strings.                                                                *)
(***************************************************************************)
Whitespace == {" "}
Terminal == {".", "!", "?"}

Min(S) == CHOOSE x \in S : \A y \in S : x <= y

Run(c, k) == [ch |-> c, n |-> k]

RECURSIVE StrLen(_)
StrLen(s) == IF s = <<>> THEN 0 ELSE Head(s).n + StrLen(Tail(s))

Concat(s, t) ==
    IF s = <<>> THEN t
    ELSE IF t = <<>> THEN s
    ELSE IF s[Len(s)].ch = t[1].ch
         THEN SubSeq(s, 1, Len(s) - 1)
              \o <<Run(t[1].ch, s[Len(s)].n + t[1].n)>>
              \o Tail(t)
         ELSE s \o t

\* The last index j >= i - 1 such that the runs i..j all hold characters of C.
SpanEnd(s, i, C) ==
    LET stop == {j \in i..Len(s) : s[j].ch \notin C}
    IN  IF stop = {} THEN Len(s) ELSE Min(stop) - 1

\* The last index j >= i - 1 such that the runs i..j hold no character of C.
SpanEndNot(s, i, C) ==
    LET stop == {j \in i..Len(s) : s[j].ch \in C}
    IN  IF stop = {} THEN Len(s) ELSE Min(stop) - 1

LStrip(s) == SubSeq(s, SpanEnd(s, 1, Whitespace) + 1, Len(s))

RStrip(s) ==
    LET keep == {j \in 1..Len(s) : s[j].ch \notin Whitespace}
    IN  IF keep = {} THEN <<>>
        ELSE SubSeq(s, 1, CHOOSE j \in keep : \A k \in keep : k <= j)

Strip(s) == RStrip(LStrip(s))

RECURSIVE Take(_, _)
Take(s, k) ==
    IF k <= 0 \/ s = <<>> THEN <<>>
    ELSE IF Head(s).n <= k
         THEN <<Head(s)>> \o Take(Tail(s), k - Head(s).n)
         ELSE <<Run(Head(s).ch, k)>>

RECURSIVE Drop(_, _)
Drop(s, k) ==
    IF k <= 0 \/ s = <<>> THEN s
    ELSE IF Head(s).n <= k
         THEN Drop(Tail(s), k - Head(s).n)
         ELSE <<Run(Head(s).ch, Head(s).n - k)>> \o Tail(s)

\* s[i:j] of Python, 0 <= i <= j.
Slice(s, i, j) == Take(Drop(s, i), j - i)

\* str.split(): the maximal whitespace-free substrings, in order.
RECURSIVE SplitWords(_)
SplitWords(s) ==
    LET t == LStrip(s)
    IN  IF t = <<>> THEN <<>>
        ELSE LET e == SpanEndNot(t, 1, Whitespace)
             IN  <<SubSeq(t, 1, e)>> \o SplitWords(SubSeq(t, e + 1, Len(t)))

\* re.split(r'([.!?]+\s+)', s): pieces and separators alternate, the list
\* starts and ends with a piece.  start is the first run of the piece being
\* read and i the run the scan has reached.
RECURSIVE ReSplitFrom(_, _, _)
ReSplitFrom(s, start, i) ==
    IF i > Len(s) THEN <<SubSeq(s, start, Len(s))>>
    ELSE IF s[i].ch \in Terminal
         THEN LET pe == SpanEnd(s, i, Terminal)
                  we == SpanEnd(s, pe + 1, Whitespace)
              IN  IF we > pe
                  THEN <<SubSeq(s, start, i - 1), SubSeq(s, i, we)>>
                       \o ReSplitFrom(s, we + 1, we + 1)
                  ELSE ReSplitFrom(s, start, pe + 1)
         ELSE ReSplitFrom(s, start, i + 1)

ReSplit(s) == ReSplitFrom(s, 1, 1)

(***************************************************************************)
(* bot/text_splitter.py                                                    *)
(***************************************************************************)
MinChunkSize == 2000
DefaultMaxLength == 3000

\* ClampMaxLength without the minimum: max_length is used as passed.
ClampMaxLengthMissing(m) == m

\* Lines 28-29: max_length below the minimum is raised to it.
ClampMaxLength(m) == IF m < MinChunkSize THEN MinChunkSize ELSE m

\* Lines 46-56: each piece is joined with the separator that follows it; the
\* last piece, which has no separator, is appended on its own.
ReconstructSentences(parts) ==
    LET n == Len(parts)
        joined == [k \in 1..(n \div 2) |->
                     IF 2 * k <= n THEN Concat(parts[2 * k - 1], parts[2 * k])
                     ELSE parts[2 * k - 1]]
    IN  IF n % 2 # 0 THEN Append(joined, parts[n]) ELSE joined

\* SliceWord with slices one character too long: word[i:i + max_length + 1]
\* for i in range(0, len(word), max_length + 1).
RECURSIVE SliceWordOffByOne(_, _, _)
SliceWordOffByOne(word, i, m) ==
    IF i >= StrLen(word) THEN <<>>
    ELSE <<Slice(word, i, i + m + 1)>> \o SliceWordOffByOne(word, i + m + 1, m)

\* Lines 113-114: word[i:i + max_length] for i in range(0, len(word), max_length).
RECURSIVE SliceWord(_, _, _)
SliceWord(word, i, m) ==
    IF i >= StrLen(word) THEN <<>>
    ELSE <<Slice(word, i, i + m)>> \o SliceWord(word, i + m, m)

\* Lines 109 and 120, 130: chunks.append(current_chunk.strip()) when
\* current_chunk is not empty.
FlushChunk(cks, cur) == IF cur # <<>> THEN Append(cks, Strip(cur)) ELSE cks

\* Lines 105-132: the loop of _split_by_words over the words left, and the
\* remaining chunk after the last word.
RECURSIVE WordLoop(_, _, _, _)
WordLoop(ws, m, cks, cur) ==
    IF ws = <<>> THEN FlushChunk(cks, cur)
    ELSE LET word == Head(ws)
         IN  IF StrLen(word) > m
             THEN WordLoop(Tail(ws), m,
                           FlushChunk(cks, cur) \o SliceWord(word, 0, m), <<>>)
             ELSE IF StrLen(cur) + StrLen(word) + 1 > m
                  THEN WordLoop(Tail(ws), m, FlushChunk(cks, cur), word)
                  ELSE WordLoop(Tail(ws), m, cks,
                                IF cur # <<>>
                                THEN Concat(Concat(cur, <<Run(" ", 1)>>), word)
                                ELSE word)

\* _split_by_words(text, max_length)
split_by_words(t, m) == WordLoop(SplitWords(t), m, <<>>, <<>>)

\* How a chunk was built: from the words of one over-long sentence, or from
\* `units` sentence units, being `before` characters long when the last of
\* them was appended.
WordOrigin == [kind |-> "words", units |-> 1, before |-> 0]
NoOrigin == [kind |-> "sentences", units |-> 0, before |-> 0]

\* IsBlankText without the strip: only the empty string counts as blank.
IsBlankTextNoStrip(t) == t = <<>>

\* Line 32: not text or not text.strip()
IsBlankText(t) == t = <<>> \/ Strip(t) = <<>>

\* Lines 27-33: empty or whitespace-only text.
ReturnEmpty ==
    /\ pc = "entry"
    /\ max_length' = ClampMaxLength(arg_max_length)
    /\ IsBlankText(text)
    /\ result' = <<>>
    /\ pc' = "done"
    /\ UNCHANGED <<text, arg_max_length, sentences, chunks, current_chunk,
                   origin, cur_origin>>
    /\ UNCHANGED notSplitVars

\* Lines 27-37: the text fits, it is returned as it is.
ReturnWhole ==
    /\ pc = "entry"
    /\ max_length' = ClampMaxLength(arg_max_length)
    /\ ~IsBlankText(text)
    /\ StrLen(text) <= max_length'
    /\ result' = <<text>>
    /\ origin' = <<[kind |-> "whole", units |-> 1, before |-> 0]>>
    /\ pc' = "done"
    /\ UNCHANGED <<text, arg_max_length, sentences, chunks, current_chunk,
                   cur_origin>>
    /\ UNCHANGED notSplitVars

\* Lines 27-56: the text is cut into sentence units.
BeginSplit ==
    /\ pc = "entry"
    /\ max_length' = ClampMaxLength(arg_max_length)
    /\ ~IsBlankText(text)
    /\ StrLen(text) > max_length'
    /\ chunks' = <<>>
    /\ current_chunk' = <<>>
    /\ sentences' = ReconstructSentences(ReSplit(text))
    /\ pc' = "loop"
    /\ UNCHANGED <<text, arg_max_length, origin, cur_origin, result>>
    /\ UNCHANGED notSplitVars

\* Lines 61-65: a sentence longer than max_length goes to _split_by_words.
SentenceTooLong ==
    /\ pc = "loop" /\ sentences # <<>>
    /\ LET sentence == Head(sentences)
           word_chunks == split_by_words(sentence, max_length)
       IN  /\ StrLen(sentence) > max_length
           /\ chunks' = chunks \o word_chunks
           /\ origin' = origin \o [k \in 1..Len(word_chunks) |-> WordOrigin]
           /\ current_chunk' = <<>>
           /\ cur_origin' = NoOrigin
    /\ sentences' = Tail(sentences)
    /\ UNCHANGED <<text, arg_max_length, max_length, result, pc>>
    /\ UNCHANGED notSplitVars

\* CloseChunk replaced by line 75: the sentence is added to the current chunk
\* although the chunk has reached the minimum.
KeepAddingAtMinimum ==
    /\ pc = "loop" /\ sentences # <<>>
    /\ LET sentence == Head(sentences)
       IN  /\ StrLen(sentence) <= max_length
           /\ StrLen(current_chunk) + StrLen(sentence) > max_length
           /\ current_chunk # <<>> /\ StrLen(current_chunk) >= MinChunkSize
           /\ current_chunk' = Concat(current_chunk, sentence)
           /\ cur_origin' = [kind |-> "sentences",
                             units |-> cur_origin.units + 1,
                             before |-> StrLen(current_chunk)]
    /\ sentences' = Tail(sentences)
    /\ UNCHANGED <<text, arg_max_length, max_length, chunks, origin, result, pc>>
    /\ UNCHANGED notSplitVars

\* CloseChunk without the minimum: the chunk is closed whenever the sentence
\* would exceed the limit.
CloseChunkBelowMinimum ==
    /\ pc = "loop" /\ sentences # <<>>
    /\ LET sentence == Head(sentences)
       IN  /\ StrLen(sentence) <= max_length
           /\ StrLen(current_chunk) + StrLen(sentence) > max_length
           /\ current_chunk # <<>>
           /\ chunks' = Append(chunks, Strip(current_chunk))
           /\ origin' = Append(origin, cur_origin)
           /\ current_chunk' = sentence
           /\ cur_origin' = [kind |-> "sentences", units |-> 1, before |-> 0]
    /\ sentences' = Tail(sentences)
    /\ UNCHANGED <<text, arg_max_length, max_length, result, pc>>
    /\ UNCHANGED notSplitVars

\* Lines 68-72: the sentence would exceed the limit and the current chunk has
\* reached the minimum: the chunk is closed and the sentence starts the next.
CloseChunk ==
    /\ pc = "loop" /\ sentences # <<>>
    /\ LET sentence == Head(sentences)
       IN  /\ StrLen(sentence) <= max_length
           /\ StrLen(current_chunk) + StrLen(sentence) > max_length
           /\ current_chunk # <<>> /\ StrLen(current_chunk) >= MinChunkSize
           /\ chunks' = Append(chunks, Strip(current_chunk))
           /\ origin' = Append(origin, cur_origin)
           /\ current_chunk' = sentence
           /\ cur_origin' = [kind |-> "sentences", units |-> 1, before |-> 0]
    /\ sentences' = Tail(sentences)
    /\ UNCHANGED <<text, arg_max_length, max_length, result, pc>>
    /\ UNCHANGED notSplitVars

\* Lines 68-75: the sentence would exceed the limit but the current chunk is
\* below the minimum: the sentence is appended all the same.
ExtendPastLimit ==
    /\ pc = "loop" /\ sentences # <<>>
    /\ LET sentence == Head(sentences)
       IN  /\ StrLen(sentence) <= max_length
           /\ StrLen(current_chunk) + StrLen(sentence) > max_length
           /\ ~(current_chunk # <<>> /\ StrLen(current_chunk) >= MinChunkSize)
           /\ current_chunk' = Concat(current_chunk, sentence)
           /\ cur_origin' = [kind |-> "sentences",
                             units |-> cur_origin.units + 1,
                             before |-> StrLen(current_chunk)]
    /\ sentences' = Tail(sentences)
    /\ UNCHANGED <<text, arg_max_length, max_length, chunks, origin, result, pc>>
    /\ UNCHANGED notSplitVars

\* Lines 76-77: the sentence fits.
AppendSentence ==
    /\ pc = "loop" /\ sentences # <<>>
    /\ LET sentence == Head(sentences)
       IN  /\ StrLen(sentence) <= max_length
           /\ StrLen(current_chunk) + StrLen(sentence) <= max_length
           /\ current_chunk' = Concat(current_chunk, sentence)
           /\ cur_origin' = [kind |-> "sentences",
                             units |-> cur_origin.units + 1,
                             before |-> StrLen(current_chunk)]
    /\ sentences' = Tail(sentences)
    /\ UNCHANGED <<text, arg_max_length, max_length, chunks, origin, result, pc>>
    /\ UNCHANGED notSplitVars

\* Line 84: the indices of the chunks that are not blank, in order.
RECURSIVE KeptIndices(_, _)
KeptIndices(cks, i) ==
    IF i > Len(cks) THEN <<>>
    ELSE (IF Strip(cks[i]) # <<>> THEN <<i>> ELSE <<>>) \o KeptIndices(cks, i + 1)

\* Lines 79-87: the remaining chunk is added, blank chunks are removed and
\* the list is returned.
ReturnChunks ==
    /\ pc = "loop" /\ sentences = <<>>
    /\ LET all == FlushChunk(chunks, current_chunk)
           allOrigin == IF current_chunk # <<>> THEN Append(origin, cur_origin)
                        ELSE origin
           kept == KeptIndices(all, 1)
       IN  /\ chunks' = [k \in 1..Len(kept) |-> all[kept[k]]]
           /\ origin' = [k \in 1..Len(kept) |-> allOrigin[kept[k]]]
    /\ result' = chunks'
    /\ pc' = "done"
    /\ UNCHANGED <<text, arg_max_length, max_length, sentences, current_chunk,
                   cur_origin>>
    /\ UNCHANGED notSplitVars

split_text ==
    \/ ReturnEmpty
    \/ ReturnWhole
    \/ BeginSplit
    \/ SentenceTooLong
    \/ CloseChunk
    \/ ExtendPastLimit
    \/ AppendSentence
    \/ ReturnChunks

(***************************************************************************)
(* The inputs of split_text.                                               *)
(***************************************************************************)
MaxRuns == 5
LetterLens == {1, 600, 1998, 2500, 7000}
SpaceLens == {1, 2}
MaxLengths == {500, MinChunkSize, DefaultMaxLength}

RunChoices ==
    {Run("a", k) : k \in LetterLens} \cup {Run(".", 1)}
        \cup {Run(" ", k) : k \in SpaceLens}

Texts ==
    UNION {{s \in [1..n -> RunChoices] :
              \A i \in 1..(n - 1) : s[i].ch # s[i + 1].ch} : n \in 0..MaxRuns}

InitSplit ==
    /\ text \in Texts
    /\ arg_max_length \in MaxLengths
    /\ max_length = arg_max_length
    /\ sentences = <<>>
    /\ chunks = <<>>
    /\ current_chunk = <<>>
    /\ origin = <<>>
    /\ cur_origin = NoOrigin
    /\ result = <<>>
    /\ pc = "entry"

IdleSplit ==
    /\ text = <<>>
    /\ arg_max_length = DefaultMaxLength
    /\ max_length = DefaultMaxLength
    /\ sentences = <<>>
    /\ chunks = <<>>
    /\ current_chunk = <<>>
    /\ origin = <<>>
    /\ cur_origin = NoOrigin
    /\ result = <<>>
    /\ pc = "idle"

IdleNum == num = 0 /\ words = <<>> /\ npc = "idle"

Init ==
    /\ InitSplit /\ IdleNum /\ IdleConv /\ IdleAcr /\ IdleTrans /\ IdlePipe
    /\ IdleProc /\ IdleSub /\ IdlePay

Next == split_text

Spec == Init /\ [][Next]_vars

(***************************************************************************)
(* bot/numbers.py                                                          *)
(*                                                                         *)
(* A string of words is a sequence of tokens: a word, or " " for one      *)
(* space character; the empty string is the empty sequence.  The Uzbek    *)
(* words are Cyrillic in the source and written here in Latin letters:    *)
(* nol, bir, ikki, uch, tort, besh, olti, yetti, sakkiz, toqqiz; on,      *)
(* yigirma, ottiz, qirq, ellik, oltmish, yetmish, sakson, toqson; yuz,    *)
(* ming, million, milliard; minus.                                        *)
(***************************************************************************)
OnesWords == <<"bir", "ikki", "uch", "tort", "besh", "olti", "yetti",
               "sakkiz", "toqqiz">>
TensWords == <<"on", "yigirma", "ottiz", "qirq", "ellik", "oltmish",
               "yetmish", "sakson", "toqson">>

\* ONES[d], d in 0..9; ONES[0] is the empty string.
ONES(d) == IF d = 0 THEN <<>> ELSE <<OnesWords[d]>>

\* TENS[t], t in {10, 20, ..., 90}.
TENS(t) == <<TensWords[t \div 10]>>

\* SCALES
ScaleHundred == 100
ScaleThousand == 1000
ScaleMillion == 1000000
ScaleBillion == 1000000000

RECURSIVE number_to_uzbek_words(_)

\* AppendRemainder without the test of the remainder.
AppendRemainderAlways(res, remainder) ==
    res \o <<" ">> \o number_to_uzbek_words(remainder)

\* Lines 70-71, 79-80, 91-92, 103-104: the remainder is appended after one
\* space when it is not zero.
AppendRemainder(res, remainder) ==
    IF remainder > 0 THEN res \o <<" ">> \o number_to_uzbek_words(remainder)
    ELSE res

\* NegativeWords without the space after "minus".
NegativeWordsNoSpace(n) == <<"minus">> \o number_to_uzbek_words(-n)

\* Lines 62-63.
NegativeWords(n) == <<"minus", " ">> \o number_to_uzbek_words(-n)

\* Lines 66-72.
BillionsWords(n) ==
    LET billions == n \div ScaleBillion
        remainder == n % ScaleBillion
    IN  AppendRemainder(number_to_uzbek_words(billions) \o <<" ", "milliard">>,
                        remainder)

\* Lines 75-81.
MillionsWords(n) ==
    LET millions == n \div ScaleMillion
        remainder == n % ScaleMillion
    IN  AppendRemainder(number_to_uzbek_words(millions) \o <<" ", "million">>,
                        remainder)

\* ThousandsWords without the case of a multiplier of 1.
ThousandsWordsKeepOne(n) ==
    LET thousands == n \div ScaleThousand
        remainder == n % ScaleThousand
    IN  AppendRemainder(number_to_uzbek_words(thousands) \o <<" ", "ming">>,
                        remainder)

\* Lines 84-93.
ThousandsWords(n) ==
    LET thousands == n \div ScaleThousand
        remainder == n % ScaleThousand
    IN  AppendRemainder(IF thousands = 1 THEN <<"ming">>
                        ELSE number_to_uzbek_words(thousands) \o <<" ", "ming">>,
                        remainder)

\* Lines 96-105.
HundredsWords(n) ==
    LET hundreds == n \div ScaleHundred
        remainder == n % ScaleHundred
    IN  AppendRemainder(IF hundreds = 1 THEN <<"yuz">>
                        ELSE ONES(hundreds) \o <<" ", "yuz">>,
                        remainder)

\* Lines 108-114.
TensWordsOf(n) ==
    LET tens_digit == (n \div 10) * 10
        ones_digit == n % 10
    IN  IF ones_digit > 0 THEN TENS(tens_digit) \o <<" ">> \o ONES(ones_digit)
        ELSE TENS(tens_digit)

number_to_uzbek_words(n) ==
    IF n = 0 THEN <<"nol">>
    ELSE IF n < 0 THEN NegativeWords(n)
    ELSE IF n >= ScaleBillion THEN BillionsWords(n)
    ELSE IF n >= ScaleMillion THEN MillionsWords(n)
    ELSE IF n >= ScaleThousand THEN ThousandsWords(n)
    ELSE IF n >= ScaleHundred THEN HundredsWords(n)
    ELSE IF n >= 10 THEN TensWordsOf(n)
    ELSE ONES(n)

\* A call of number_to_uzbek_words(num).
CallNumberToWords ==
    /\ npc = "call"
    /\ words' = number_to_uzbek_words(num)
    /\ npc' = "done"
    /\ UNCHANGED num
    /\ UNCHANGED notNumVars

(***************************************************************************)
(* The inputs of number_to_uzbek_words: every combination of the segment  *)
(* values below, with either sign.                                        *)
(***************************************************************************)
BillionValues == {0, 1}
MultiplierValues == {0, 1, 2, 10, 11, 21, 100, 101, 999}
HundredValues == {0, 1, 2, 9}
BelowHundredValues == {0, 1, 9, 10, 11, 23, 42, 50, 99}

NumInputs ==
    {sign * (b * ScaleBillion + m * ScaleMillion + t * ScaleThousand
             + h * ScaleHundred + r) :
        sign \in {1, -1}, b \in BillionValues, m \in MultiplierValues,
        t \in MultiplierValues, h \in HundredValues, r \in BelowHundredValues}

InitNum ==
    /\ IdleSplit /\ IdleConv /\ IdleAcr /\ IdleTrans /\ IdlePipe
    /\ IdleProc /\ IdleSub /\ IdlePay
    /\ num \in NumInputs /\ words = <<>> /\ npc = "call"

NextNum == CallNumberToWords

SpecNum == InitNum /\ [][NextNum]_vars

(***************************************************************************)
(* Properties of split_text.                                               *)
(***************************************************************************)
Returned == pc = "done"

\* " ".join(cks)
RECURSIVE JoinSpaces(_)
JoinSpaces(cks) ==
    IF cks = <<>> THEN <<>>
    ELSE IF Len(cks) = 1 THEN cks[1]
    ELSE Concat(Concat(cks[1], <<Run(" ", 1)>>), JoinSpaces(Tail(cks)))

\* Every run of whitespace replaced by one space.
RECURSIVE Collapse(_)
Collapse(s) ==
    IF s = <<>> THEN <<>>
    ELSE IF Head(s).ch \in Whitespace
         THEN <<Run(" ", 1)>> \o Collapse(LStrip(Tail(s)))
         ELSE <<Head(s)>> \o Collapse(Tail(s))

Normalized(s) == Strip(Collapse(s))

IsBlank(s) == \A i \in 1..Len(s) : s[i].ch \in Whitespace

\* max(max_length, 2000) for the max_length the caller passed.
Ceiling == IF arg_max_length > 2000 THEN arg_max_length ELSE 2000

LongestWord(s) ==
    LET ws == SplitWords(s)
    IN  IF ws = <<>> THEN 0
        ELSE CHOOSE k \in {StrLen(ws[i]) : i \in 1..Len(ws)} :
                 \A i \in 1..Len(ws) : StrLen(ws[i]) <= k

\* C1: joining the returned chunks with single spaces and collapsing
\* whitespace gives the input with its whitespace collapsed and trimmed.
\* Stated for the texts none of whose words is longer than the ceiling, so
\* that no word is cut into slices.
C1_ContentPreserved ==
    (Returned /\ LongestWord(text) <= Ceiling)
        => Normalized(JoinSpaces(result)) = Normalized(text)

\* C2: when every word of the text is shorter than the max_length that was
\* passed, or the text is one single word, every returned chunk is at most
\* max_length characters long.
C2_ChunksWithinPassedMaxLength ==
    (Returned /\ (LongestWord(text) < arg_max_length \/ Len(text) = 1))
        => \A i \in 1..Len(result) : StrLen(result[i]) <= arg_max_length

C4_FittingTextReturnedWhole ==
    (Returned /\ ~IsBlank(text) /\ StrLen(text) <= Ceiling)
        => result = <<text>>

\* A text of exactly 2000 characters passed with max_length 500.
C4_Witness ==
    /\ Returned
    /\ arg_max_length = 500
    /\ StrLen(text) = 2000
    /\ Len(text) > 1
    /\ result = <<text>>

\* C5: every returned chunk is non-empty and has no leading or trailing
\* whitespace.
C5_ChunksTrimmed ==
    Returned =>
        \A i \in 1..Len(result) :
            result[i] # <<>> /\ Strip(result[i]) = result[i]

\* C6: when more than one chunk is returned, every chunk has at least 2000
\* characters, unless it was produced from an over-long sentence or word.
C6_ChunksReachMinimum ==
    (Returned /\ Len(result) > 1)
        => \A i \in 1..Len(result) :
               StrLen(result[i]) >= 2000 \/ origin[i].kind = "words"

\* C7: the empty list is returned for the blank texts and only for them.
C7_EmptyIffBlank ==
    Returned => (result = <<>> <=> IsBlank(text))

\* A whitespace-only text has returned the empty list, whatever max_length.
C7_Witness ==
    /\ Returned
    /\ text = <<Run(" ", 2)>>
    /\ arg_max_length = 500
    /\ result = <<>>

(***************************************************************************)
(* Properties of number_to_uzbek_words.                                    *)
(***************************************************************************)
NumReturned == npc = "done"

\* The words of a string, in order: the tokens that are not a space.
WordsOf(s) == SelectSeq(s, LAMBDA tok : tok # " ")

\* ws joined with single spaces.
RECURSIVE JoinWords(_)
JoinWords(ws) ==
    IF ws = <<>> THEN <<>>
    ELSE IF Len(ws) = 1 THEN <<ws[1]>>
    ELSE <<ws[1], " ">> \o JoinWords(Tail(ws))

\* No empty word, no leading, trailing or doubled space.
WellSpaced(s) ==
    /\ s # <<>>
    /\ \A i \in 1..Len(s) : s[i] # ""
    /\ s[1] # " " /\ s[Len(s)] # " "
    /\ \A i \in 1..(Len(s) - 1) : ~(s[i] = " " /\ s[i + 1] = " ")

\* The words of the tens and ones segment of r, 0 <= r <= 99.
BelowHundredSegment(r) ==
    (IF r \div 10 = 0 THEN <<>> ELSE <<TensWords[r \div 10]>>)
        \o (IF r % 10 = 0 THEN <<>> ELSE <<OnesWords[r % 10]>>)

\* The words of x, 0 <= x <= 999: hundred segment, then tens and ones.
BelowThousandSegments(x) ==
    (IF x \div 100 = 0 THEN <<>>
     ELSE IF x \div 100 = 1 THEN <<"yuz">>
     ELSE <<OnesWords[x \div 100], "yuz">>)
        \o BelowHundredSegment(x % 100)

\* The words of n, 1 <= n <= 999999999: the million segment, the thousand
\* segment, then the hundred, tens and ones segments; a segment whose
\* multiplier is 0 gives no word.
SegmentWords(n) ==
    LET m == n \div 1000000
        t == (n \div 1000) % 1000
    IN  (IF m = 0 THEN <<>> ELSE BelowThousandSegments(m) \o <<"million">>)
            \o (IF t = 0 THEN <<>>
                ELSE IF t = 1 THEN <<"ming">>
                ELSE BelowThousandSegments(t) \o <<"ming">>)
            \o BelowThousandSegments(n % 1000)

\* C8: for n in 1..999999999 the result is the words of n's non-zero
\* segments in the order million, thousand, hundred, tens, ones, joined by
\* single spaces, with no empty word and no leading, trailing or doubled
\* space; 42, 250, 2023, 10000 and 1000000 give the listed strings.
C8_SegmentsInScaleOrder ==
    (NumReturned /\ num >= 1 /\ num <= 999999999) =>
        /\ words = JoinWords(SegmentWords(num))
        /\ WellSpaced(words)
        /\ num = 42 => words = <<"qirq", " ", "ikki">>
        /\ num = 250 => words = <<"ikki", " ", "yuz", " ", "ellik">>
        /\ num = 2023 => words = <<"ikki", " ", "ming", " ", "yigirma", " ", "uch">>
        /\ num = 10000 => words = <<"on", " ", "ming">>
        /\ num = 1000000 => words = <<"bir", " ", "million">>

\* 999 999 999, every segment present, has been converted.
C8_Witness ==
    /\ NumReturned
    /\ num = 999999999
    /\ Len(WordsOf(words)) = 14

\* C9: 0 gives exactly "nol", no other number gives a string holding the
\* word "nol", and -n, n > 0, gives "minus " followed by the words of n.
C9_ZeroAndMinus ==
    NumReturned =>
        /\ num = 0 => words = <<"nol">>
        /\ num # 0 => \A i \in 1..Len(words) : words[i] # "nol"
        /\ num < 0 => words = <<"minus", " ">> \o number_to_uzbek_words(-num)
        /\ (num < 0 /\ num > -1000000000) =>
               words = <<"minus", " ">> \o JoinWords(SegmentWords(-num))

\* -2023 has been converted.
C9_Witness ==
    /\ NumReturned
    /\ num = -2023
    /\ words = <<"minus", " ", "ikki", " ", "ming", " ", "yigirma", " ", "uch">>

\* The word in front of the first occurrence of scale word w in s, "" when
\* w is the first word or does not occur.
WordBefore(s, w) ==
    LET ws == WordsOf(s)
        at == {i \in 1..Len(ws) : ws[i] = w}
    IN  IF at = {} \/ Min(at) = 1 THEN "" ELSE ws[Min(at) - 1]

Occurs(s, w) == \E i \in 1..Len(s) : s[i] = w

\* C10: a multiplier of exactly 1 is not spoken in front of "ming" and
\* "yuz"; it is spoken in front of "million" and "milliard", and a thousand
\* multiplier other than 1 that ends in 1 keeps its "bir".
C10_OneElidedAtThousandAndHundred ==
    (NumReturned /\ num > 0) =>
        LET b == num \div 1000000000
            m == (num \div 1000000) % 1000
            t == (num \div 1000) % 1000
            ws == WordsOf(words)
        IN  /\ t = 1 => Occurs(words, "ming") /\ WordBefore(words, "ming") # "bir"
            /\ (t # 1 /\ t % 10 = 1) => WordBefore(words, "ming") = "bir"
            /\ \A i \in 2..Len(ws) : ws[i] = "yuz" => ws[i - 1] # "bir"
            /\ (num \div 100) % 10 = 1 => Occurs(words, "yuz")
            /\ m = 1 => WordBefore(words, "million") = "bir"
            /\ b = 1 => WordBefore(words, "milliard") = "bir"
            /\ num = 1000 => words = <<"ming">>
            /\ num = 100 => words = <<"yuz">>
            /\ num = 1100 => words = <<"ming", " ", "yuz">>
            /\ num = 1001000 => words = <<"bir", " ", "million", " ", "ming">>
            /\ num = 1000000 => words = <<"bir", " ", "million">>
            /\ num = 21000 => words = <<"yigirma", " ", "bir", " ", "ming">>

\* 1 001 100 has been converted: "bir" kept at the million, dropped at the
\* thousand and at the hundred.
C10_Witness ==
    /\ NumReturned
    /\ num = 1001100
    /\ words = <<"bir", " ", "million", " ", "ming", " ", "yuz">>

(***************************************************************************)
(* Character strings                                                       *)
(*                                                                         *)
(* From here on a Python string is the sequence of its characters.  An    *)
(* ASCII character is itself; any other character, and the backtick, is   *)
(* named by its code point: "U+0431" is the Cyrillic letter BE, "U+0060"  *)
(* the backtick.                                                           *)
(***************************************************************************)
Digits == {"0", "1", "2", "3", "4", "5", "6", "7", "8", "9"}

\* One element that stands for 4301 consecutive characters '9': a digit run
\* that holds it has more digits than int() converts and int() raises
\* ValueError.
LongDigits == "9{4301}"

\* The characters matched by \d.
DigitChars == Digits \cup {LongDigits}

DigitValue(c) ==
    CASE c = "0" -> 0 [] c = "1" -> 1 [] c = "2" -> 2 [] c = "3" -> 3
      [] c = "4" -> 4 [] c = "5" -> 5 [] c = "6" -> 6 [] c = "7" -> 7
      [] c = "8" -> 8 [] c = "9" -> 9

\* int(run) returns, for a run of decimal digits.
Parses(run) == \A i \in 1..Len(run) : run[i] # LongDigits

RECURSIVE IntOf(_)
\* int(run), for a run that parses.
IntOf(run) ==
    IF run = <<>> THEN 0
    ELSE IntOf(SubSeq(run, 1, Len(run) - 1)) * 10 + DigitValue(run[Len(run)])

\* The characters of a word of bot/numbers.py.
Letters(w) ==
    CASE w = "bir" -> <<"U+0431", "U+0438", "U+0440">>
      [] w = "ikki" -> <<"U+0438", "U+043A", "U+043A", "U+0438">>
      [] w = "uch" -> <<"U+0443", "U+0447">>
      [] w = "tort" -> <<"U+0442", "U+045E", "U+0440", "U+0442">>
      [] w = "besh" -> <<"U+0431", "U+0435", "U+0448">>
      [] w = "olti" -> <<"U+043E", "U+043B", "U+0442", "U+0438">>
      [] w = "yetti" -> <<"U+0435", "U+0442", "U+0442", "U+0438">>
      [] w = "sakkiz" -> <<"U+0441", "U+0430", "U+043A", "U+043A", "U+0438", "U+0437">>
      [] w = "toqqiz" -> <<"U+0442", "U+045E", "U+049B", "U+049B", "U+0438", "U+0437">>
      [] w = "on" -> <<"U+045E", "U+043D">>
      [] w = "yigirma" -> <<"U+0439", "U+0438", "U+0433", "U+0438", "U+0440", "U+043C", "U+0430">>
      [] w = "ottiz" -> <<"U+045E", "U+0442", "U+0442", "U+0438", "U+0437">>
      [] w = "qirq" -> <<"U+049B", "U+0438", "U+0440", "U+049B">>
      [] w = "ellik" -> <<"U+044D", "U+043B", "U+043B", "U+0438", "U+043A">>
      [] w = "oltmish" -> <<"U+043E", "U+043B", "U+0442", "U+043C", "U+0438", "U+0448">>
      [] w = "yetmish" -> <<"U+0435", "U+0442", "U+043C", "U+0438", "U+0448">>
      [] w = "sakson" -> <<"U+0441", "U+0430", "U+043A", "U+0441", "U+043E", "U+043D">>
      [] w = "toqson" -> <<"U+0442", "U+045E", "U+049B", "U+0441", "U+043E", "U+043D">>
      [] w = "yuz" -> <<"U+044E", "U+0437">>
      [] w = "ming" -> <<"U+043C", "U+0438", "U+043D", "U+0433">>
      [] w = "million" -> <<"U+043C", "U+0438", "U+043B", "U+043B", "U+0438", "U+043E", "U+043D">>
      [] w = "milliard" -> <<"U+043C", "U+0438", "U+043B", "U+043B", "U+0438", "U+0430", "U+0440", "U+0434">>
      [] w = "nol" -> <<"U+043D", "U+043E", "U+043B">>
      [] w = "minus" -> <<"U+043C", "U+0438", "U+043D", "U+0443", "U+0441">>
      [] OTHER -> <<w>>

RECURSIVE Chars(_)
\* The characters of a string of words.
Chars(tokens) ==
    IF tokens = <<>> THEN <<>> ELSE Letters(Head(tokens)) \o Chars(Tail(tokens))

(***************************************************************************)
(* bot/numbers.py: convert_numbers_in_text                                 *)
(***************************************************************************)
\* " inchi ", the ordinal suffix with its two spaces.
OrdinalSuffix == <<" ", "U+0438", "U+043D", "U+0447", "U+0438", " ">>

\* "vergul", the spoken decimal separator.
Vergul == <<"U+0432", "U+0435", "U+0440", "U+0433", "U+0443", "U+043B">>

\* The characters '.' and ',' of [.,].
Separators == {".", ","}

\* The result of a call that raised ValueError instead of returning.
ValueError == <<"ValueError">>

RECURSIVE DigitRunEnd(_, _)
\* The index after the digits that \d* matches from index i of s.
DigitRunEnd(s, i) ==
    IF i <= Len(s) /\ s[i] \in DigitChars THEN DigitRunEnd(s, i + 1) ELSE i

\* The words of int(run) as characters.
WordsOfRun(run) == Chars(number_to_uzbek_words(IntOf(run)))

\* replace_ordinal without the suffix of the ordinal.
ReplaceOrdinalKeepHyphen(run) ==
    IF Parses(run) THEN WordsOfRun(run) \o <<"-">> ELSE run \o <<"-">>

\* replace_ordinal, for a match of (\d+)- whose group 1 is run.
replace_ordinal(run) ==
    IF Parses(run) THEN WordsOfRun(run) \o OrdinalSuffix ELSE run \o <<"-">>

RECURSIVE OrdinalPassFrom(_, _)
\* re.sub(r'(\d+)-', replace_ordinal, s), from index i on.
OrdinalPassFrom(s, i) ==
    LET digits == {k \in i..Len(s) : s[k] \in DigitChars}
    IN  IF digits = {} THEN SubSeq(s, i, Len(s))
        ELSE LET a == Min(digits)
                 j == DigitRunEnd(s, a)
                 run == SubSeq(s, a, j - 1)
             IN  SubSeq(s, i, a - 1)
                     \o (IF j <= Len(s) /\ s[j] = "-"
                         THEN replace_ordinal(run) \o OrdinalPassFrom(s, j + 1)
                         ELSE run \o OrdinalPassFrom(s, j))

OrdinalPass(s) == OrdinalPassFrom(s, 1)

\* One part of the split numeral: its words, the separator word for the
\* empty part, ValueError where int() raises.
PartWords(part) ==
    IF part # <<>>
    THEN IF Parses(part) THEN WordsOfRun(part) ELSE ValueError
    ELSE Vergul

\* replace_number that converts the digits in front of the separator only.
ReplaceNumberWholePartOnly(num_str) ==
    IF \E p \in 1..Len(num_str) : num_str[p] \in Separators
    THEN LET p == CHOOSE q \in 1..Len(num_str) : num_str[q] \in Separators
             first == PartWords(SubSeq(num_str, 1, p - 1))
         IN  IF first = ValueError THEN ValueError
             ELSE first \o SubSeq(num_str, p, Len(num_str))
    ELSE IF Parses(num_str) THEN WordsOfRun(num_str) ELSE num_str

\* replace_number, for a match num_str of \d+[.,]?\d*.
replace_number(num_str) ==
    IF \E p \in 1..Len(num_str) : num_str[p] \in Separators
    THEN LET p == CHOOSE q \in 1..Len(num_str) : num_str[q] \in Separators
             first == PartWords(SubSeq(num_str, 1, p - 1))
             second == PartWords(SubSeq(num_str, p + 1, Len(num_str)))
         IN  IF first = ValueError \/ second = ValueError THEN ValueError
             ELSE first \o <<" ">> \o second
    ELSE IF Parses(num_str) THEN WordsOfRun(num_str) ELSE num_str

\* The replacement followed by the rest of the substitution, unless one of
\* them raised.
Emit(head, rest) ==
    IF head = ValueError \/ rest = ValueError THEN ValueError ELSE head \o rest

RECURSIVE NumeralPassFrom(_, _)
\* re.sub(r'\d+[.,]?\d*', replace_number, s), from index i on.
NumeralPassFrom(s, i) ==
    LET digits == {k \in i..Len(s) : s[k] \in DigitChars}
    IN  IF digits = {} THEN SubSeq(s, i, Len(s))
        ELSE LET a == Min(digits)
                 j == DigitRunEnd(s, a)
                 k == IF j <= Len(s) /\ s[j] \in Separators
                      THEN DigitRunEnd(s, j + 1) ELSE j
             IN  Emit(SubSeq(s, i, a - 1),
                      Emit(replace_number(SubSeq(s, a, k - 1)),
                           NumeralPassFrom(s, k)))

NumeralPass(s) == NumeralPassFrom(s, 1)

\* Line 149: the ordinal pass over the whole text.
ConvOrdinals ==
    /\ cpc = "call"
    /\ cmid' = OrdinalPass(ctext)
    /\ cpc' = "ordinals_done"
    /\ UNCHANGED <<ctext, cout>>
    /\ UNCHANGED notConvVars

\* Lines 176-177: the generic numeral pass returns.
ConvNumerals ==
    /\ cpc = "ordinals_done"
    /\ NumeralPass(cmid) # ValueError
    /\ cout' = NumeralPass(cmid)
    /\ cpc' = "done"
    /\ UNCHANGED <<ctext, cmid>>
    /\ UNCHANGED notConvVars

\* Line 163: int() raises inside replace_number and nothing catches it.
ConvRaise ==
    /\ cpc = "ordinals_done"
    /\ NumeralPass(cmid) = ValueError
    /\ cpc' = "raised"
    /\ UNCHANGED <<ctext, cmid, cout>>
    /\ UNCHANGED notConvVars

convert_numbers_in_text == ConvOrdinals \/ ConvNumerals \/ ConvRaise

\* The value convert_numbers_in_text(s) returns, ValueError where it raises.
ConvertNumbers(s) == NumeralPass(OrdinalPass(s))

(***************************************************************************)
(* The inputs of convert_numbers_in_text: every string of at most         *)
(* MaxChars characters of ConvAlphabet, and the texts of the tests.       *)
(***************************************************************************)
MaxChars == 4

ConvAlphabet == {"3", "0", LongDigits, "-", ".", ",", "x", " "}

\* The strings of at most MaxChars characters of the alphabet A.
StringsOver(A) == UNION {[1..n -> A] : n \in 0..MaxChars}

\* '9-yanvar'
NinthOfJanuary == <<"9", "-", "y", "a", "n", "v", "a", "r">>

\* '2026-yil 3-iyun'
YearAndDay ==
    <<"2", "0", "2", "6", "-", "y", "i", "l", " ", "3", "-", "i", "y", "u", "n">>

ConvTexts == StringsOver(ConvAlphabet) \cup {NinthOfJanuary, YearAndDay}

InitConv ==
    /\ IdleSplit /\ IdleNum /\ IdleAcr /\ IdleTrans /\ IdlePipe
    /\ IdleProc /\ IdleSub /\ IdlePay
    /\ ctext \in ConvTexts /\ cmid = <<>> /\ cout = <<>> /\ cpc = "call"

NextConv == convert_numbers_in_text

SpecConv == InitConv /\ [][NextConv]_vars

(***************************************************************************)
(* Claims on convert_numbers_in_text                                       *)
(***************************************************************************)
ConvReturned == cpc = "done"

\* The ordinal pass has run.
OrdinalsDone == cpc \in {"ordinals_done", "done", "raised"}

\* The runs of the text that the ordinal pass is about: <<i, j>> where a
\* maximal digit run that int() parses fills i..j-1 and a hyphen is at j.
OrdinalRuns(s) ==
    {ij \in (1..Len(s)) \X (1..Len(s)) :
        /\ ij[1] < ij[2]
        /\ \A k \in ij[1]..(ij[2] - 1) : s[k] \in DigitChars
        /\ (ij[1] > 1 => s[ij[1] - 1] \notin DigitChars)
        /\ s[ij[2]] = "-"
        /\ Parses(SubSeq(s, ij[1], ij[2] - 1))}

\* 'toqqiz inchi yanvar' in Cyrillic letters.
NinthOfJanuaryWords ==
    <<"U+0442", "U+045E", "U+049B", "U+049B", "U+0438", "U+0437",
      " ", "U+0438", "U+043D", "U+0447", "U+0438", " ",
      "y", "a", "n", "v", "a", "r">>

YearAndDayExpected ==
    Chars(<<"ikki", " ", "ming", " ", "yigirma", " ", "olti">>)
        \o <<"-", "y", "i", "l", " ">>
        \o Chars(<<"uch">>) \o OrdinalSuffix \o <<"i", "y", "u", "n">>

\* C12: convert_numbers_in_text('2026-yil 3-iyun') returns 'ikki ming
\* yigirma olti-yil uch inchi iyun': the year keeps its hyphen and gets no
\* ordinal suffix, the day becomes 'uch inchi '.
C12_YearKeepsHyphen ==
    ConvReturned /\ ctext = YearAndDay => cout = YearAndDayExpected

\* A numeral that fills the whole text: digits, one separator, digits.
IsDecimal(s, p) ==
    /\ p \in 2..Len(s)
    /\ s[p] \in Separators
    /\ \A k \in 1..Len(s) : k # p => s[k] \in Digits

\* C13: the separator of a numeral is always spoken: 'a.b' and 'a,b' become
\* words(a) ' vergul ' words(b), and 'a.' becomes words(a) ' vergul'.
C13_SeparatorSpoken ==
    ConvReturned =>
        \A p \in 1..Len(ctext) :
            IsDecimal(ctext, p) =>
                LET a == SubSeq(ctext, 1, p - 1)
                    b == SubSeq(ctext, p + 1, Len(ctext))
                IN  cout = WordsOfRun(a) \o <<" ">> \o Vergul
                              \o (IF b = <<>> THEN <<>>
                                  ELSE <<" ">> \o WordsOfRun(b))

\* The number of occurrences of the character c in s.
CountOf(s, c) == Cardinality({k \in 1..Len(s) : s[k] = c})

\* C14: convert_numbers_in_text never raises, and a digit run that int()
\* cannot parse is in the output unmodified, in the ordinal pass, the
\* plain-integer pass and the decimal pass alike.
C14_NeverRaises ==
    /\ cpc # "raised"
    /\ ConvReturned => CountOf(cout, LongDigits) = CountOf(ctext, LongDigits)

(***************************************************************************)
(* Letters                                                                 *)
(***************************************************************************)
\* A-Z.
LatinUpper ==
    {"A", "B", "C", "D", "E", "F", "G", "H", "I", "J", "K", "L", "M",
     "N", "O", "P", "Q", "R", "S", "T", "U", "V", "W", "X", "Y", "Z"}

\* a-z.
LatinLower ==
    {"a", "b", "c", "d", "e", "f", "g", "h", "i", "j", "k", "l", "m",
     "n", "o", "p", "q", "r", "s", "t", "u", "v", "w", "x", "y", "z"}

\* The Cyrillic capitals of the character class: U+0410..U+042F and
\* U+0401, U+049A, U+0492, U+04B2, U+040E.
CyrillicUpper ==
    {"U+0410", "U+0411", "U+0412", "U+0413", "U+0414", "U+0415",
     "U+0416", "U+0417", "U+0418", "U+0419", "U+041A", "U+041B",
     "U+041C", "U+041D", "U+041E", "U+041F", "U+0420", "U+0421",
     "U+0422", "U+0423", "U+0424", "U+0425", "U+0426", "U+0427",
     "U+0428", "U+0429", "U+042A", "U+042B", "U+042C", "U+042D",
     "U+042E", "U+042F", "U+0401", "U+049A", "U+0492", "U+04B2",
     "U+040E"}

\* Their lower-case letters.
CyrillicLower ==
    {"U+0430", "U+0431", "U+0432", "U+0433", "U+0434", "U+0435",
     "U+0436", "U+0437", "U+0438", "U+0439", "U+043A", "U+043B",
     "U+043C", "U+043D", "U+043E", "U+043F", "U+0440", "U+0441",
     "U+0442", "U+0443", "U+0444", "U+0445", "U+0446", "U+0447",
     "U+0448", "U+0449", "U+044A", "U+044B", "U+044C", "U+044D",
     "U+044E", "U+044F", "U+0451", "U+049B", "U+0493", "U+04B3",
     "U+045E"}

\* str.lower() of one character.
Lower(c) ==
    CASE c = "A" -> "a"
      [] c = "B" -> "b"
      [] c = "C" -> "c"
      [] c = "D" -> "d"
      [] c = "E" -> "e"
      [] c = "F" -> "f"
      [] c = "G" -> "g"
      [] c = "H" -> "h"
      [] c = "I" -> "i"
      [] c = "J" -> "j"
      [] c = "K" -> "k"
      [] c = "L" -> "l"
      [] c = "M" -> "m"
      [] c = "N" -> "n"
      [] c = "O" -> "o"
      [] c = "P" -> "p"
      [] c = "Q" -> "q"
      [] c = "R" -> "r"
      [] c = "S" -> "s"
      [] c = "T" -> "t"
      [] c = "U" -> "u"
      [] c = "V" -> "v"
      [] c = "W" -> "w"
      [] c = "X" -> "x"
      [] c = "Y" -> "y"
      [] c = "Z" -> "z"
      [] c = "U+0410" -> "U+0430"
      [] c = "U+0411" -> "U+0431"
      [] c = "U+0412" -> "U+0432"
      [] c = "U+0413" -> "U+0433"
      [] c = "U+0414" -> "U+0434"
      [] c = "U+0415" -> "U+0435"
      [] c = "U+0416" -> "U+0436"
      [] c = "U+0417" -> "U+0437"
      [] c = "U+0418" -> "U+0438"
      [] c = "U+0419" -> "U+0439"
      [] c = "U+041A" -> "U+043A"
      [] c = "U+041B" -> "U+043B"
      [] c = "U+041C" -> "U+043C"
      [] c = "U+041D" -> "U+043D"
      [] c = "U+041E" -> "U+043E"
      [] c = "U+041F" -> "U+043F"
      [] c = "U+0420" -> "U+0440"
      [] c = "U+0421" -> "U+0441"
      [] c = "U+0422" -> "U+0442"
      [] c = "U+0423" -> "U+0443"
      [] c = "U+0424" -> "U+0444"
      [] c = "U+0425" -> "U+0445"
      [] c = "U+0426" -> "U+0446"
      [] c = "U+0427" -> "U+0447"
      [] c = "U+0428" -> "U+0448"
      [] c = "U+0429" -> "U+0449"
      [] c = "U+042A" -> "U+044A"
      [] c = "U+042B" -> "U+044B"
      [] c = "U+042C" -> "U+044C"
      [] c = "U+042D" -> "U+044D"
      [] c = "U+042E" -> "U+044E"
      [] c = "U+042F" -> "U+044F"
      [] c = "U+0401" -> "U+0451"
      [] c = "U+049A" -> "U+049B"
      [] c = "U+0492" -> "U+0493"
      [] c = "U+04B2" -> "U+04B3"
      [] c = "U+040E" -> "U+045E"
      [] c = "U+0407" -> "U+0457"
      [] c = "U+212A" -> "k"
      [] OTHER -> c

\* A capital letter outside the character class: U+0407.
OtherUpper == {"U+0407"}

\* The letters outside ASCII whose lower() lies between 'a' and 'z':
\* U+0130, whose lower() is 'i' followed by U+0307, and U+212A (KELVIN
\* SIGN), whose lower() is 'k'.
LowersIntoLatin == {"U+0130", "U+212A"}

\* str.isupper() and str.isalpha() of one character.
IsUpperChar(c) ==
    c \in LatinUpper \cup CyrillicUpper \cup OtherUpper \cup LowersIntoLatin
IsAlphaChar(c) ==
    c \in LatinUpper \cup LatinLower \cup CyrillicUpper \cup CyrillicLower
            \cup OtherUpper \cup LowersIntoLatin

\* The characters matched by \w: letters, digits and the underscore.
IsWordChar(c) == IsAlphaChar(c) \/ c \in DigitChars \/ c = "_"

(***************************************************************************)
(* bot/acronyms.py                                                         *)
(***************************************************************************)
\* The keys of LETTER_NAMES_CYRILLIC.
CyrillicNamed ==
    {"U+0410", "U+0411", "U+0412", "U+0413", "U+0414", "U+0415",
     "U+0401", "U+0416", "U+0417", "U+0418", "U+0419", "U+041A",
     "U+041B", "U+041C", "U+041D", "U+041E", "U+041F", "U+0420",
     "U+0421", "U+0422", "U+0423", "U+0424", "U+0425", "U+04B2",
     "U+0426", "U+0427", "U+0428", "U+042A", "U+042C", "U+042D",
     "U+042E", "U+042F", "U+0492", "U+049A", "U+040E"}

\* LETTER_NAMES_CYRILLIC[c], the spoken name of a Cyrillic capital.
LETTER_NAMES_CYRILLIC(c) ==
    CASE c = "U+0410" -> <<"U+0430">>
      [] c = "U+0411" -> <<"U+0431", "U+0435">>
      [] c = "U+0412" -> <<"U+0432", "U+0435">>
      [] c = "U+0413" -> <<"U+0433", "U+0435">>
      [] c = "U+0414" -> <<"U+0434", "U+0435">>
      [] c = "U+0415" -> <<"U+0435">>
      [] c = "U+0401" -> <<"U+0451">>
      [] c = "U+0416" -> <<"U+0436", "U+0435">>
      [] c = "U+0417" -> <<"U+0437", "U+0435">>
      [] c = "U+0418" -> <<"U+0438">>
      [] c = "U+0419" -> <<"U+0439">>
      [] c = "U+041A" -> <<"U+043A", "U+0430">>
      [] c = "U+041B" -> <<"U+044D", "U+043B">>
      [] c = "U+041C" -> <<"U+044D", "U+043C">>
      [] c = "U+041D" -> <<"U+044D", "U+043D">>
      [] c = "U+041E" -> <<"U+043E">>
      [] c = "U+041F" -> <<"U+043F", "U+0435">>
      [] c = "U+0420" -> <<"U+044D", "U+0440">>
      [] c = "U+0421" -> <<"U+044D", "U+0441">>
      [] c = "U+0422" -> <<"U+0442", "U+0435">>
      [] c = "U+0423" -> <<"U+0443">>
      [] c = "U+0424" -> <<"U+044D", "U+0444">>
      [] c = "U+0425" -> <<"U+0445", "U+0430">>
      [] c = "U+04B2" -> <<"U+04B3", "U+0430">>
      [] c = "U+0426" -> <<"U+0446", "U+0435">>
      [] c = "U+0427" -> <<"U+0447", "U+0435">>
      [] c = "U+0428" -> <<"U+0448", "U+0430">>
      [] c = "U+042A" -> <<"U+044A">>
      [] c = "U+042C" -> <<"U+044C">>
      [] c = "U+042D" -> <<"U+044D">>
      [] c = "U+042E" -> <<"U+044E">>
      [] c = "U+042F" -> <<"U+044F">>
      [] c = "U+0492" -> <<"U+0493", "U+0430">>
      [] c = "U+049A" -> <<"U+049B", "U+0430">>
      [] c = "U+040E" -> <<"U+045E">>

\* The keys of LETTER_NAMES_LATIN.
LatinNamed ==
    {"A", "B", "C", "D", "E", "F", "G", "H", "I", "J", "K", "L", "M",
     "N", "O", "P", "Q", "R", "S", "T", "U", "V", "W", "X", "Y", "Z"}

\* LETTER_NAMES_LATIN[c], the spoken name of a Latin capital.
LETTER_NAMES_LATIN(c) ==
    CASE c = "A" -> <<"U+0430">>
      [] c = "B" -> <<"U+0431", "U+0435">>
      [] c = "C" -> <<"U+0441", "U+0435">>
      [] c = "D" -> <<"U+0434", "U+0435">>
      [] c = "E" -> <<"U+0435">>
      [] c = "F" -> <<"U+044D", "U+0444">>
      [] c = "G" -> <<"U+0433", "U+0435">>
      [] c = "H" -> <<"U+0430", "U+0448">>
      [] c = "I" -> <<"U+0438">>
      [] c = "J" -> <<"U+0436", "U+0435">>
      [] c = "K" -> <<"U+043A", "U+0430">>
      [] c = "L" -> <<"U+044D", "U+043B">>
      [] c = "M" -> <<"U+044D", "U+043C">>
      [] c = "N" -> <<"U+044D", "U+043D">>
      [] c = "O" -> <<"U+043E">>
      [] c = "P" -> <<"U+043F", "U+0435">>
      [] c = "Q" -> <<"U+049B", "U+0430">>
      [] c = "R" -> <<"U+044D", "U+0440">>
      [] c = "S" -> <<"U+044D", "U+0441">>
      [] c = "T" -> <<"U+0442", "U+0435">>
      [] c = "U" -> <<"U+0443">>
      [] c = "V" -> <<"U+0432", "U+0435">>
      [] c = "W" -> <<"U+0434", "U+0430", "U+0431", "U+043B", " ", "U+044E">>
      [] c = "X" -> <<"U+044D", "U+043A", "U+0441">>
      [] c = "Y" -> <<"U+0443", "U+0430", "U+0439">>
      [] c = "Z" -> <<"U+0437", "U+0435">>

\* The character class [A-Z and the Cyrillic capitals] of line 145.
AcronymClass == LatinUpper \cup CyrillicUpper

\* The spoken name of one character of an acronym.
LetterName(char) ==
    IF char \in CyrillicNamed THEN LETTER_NAMES_CYRILLIC(char)
    ELSE IF char \in LatinNamed THEN LETTER_NAMES_LATIN(char)
    ELSE <<Lower(char)>>

RECURSIVE spell_out_acronym(_)
\* '-'.join(letters)
spell_out_acronym(word) ==
    IF word = <<>> THEN <<>>
    ELSE IF Len(word) = 1 THEN LetterName(word[1])
    ELSE LetterName(Head(word)) \o <<"-">> \o spell_out_acronym(Tail(word))

\* replace_acronym that spells single capitals too.
ReplaceAcronymAnyLength(word) == spell_out_acronym(word)

\* replace_acronym, for a match word.
replace_acronym(word) ==
    IF /\ Len(word) >= 2
       /\ \A k \in 1..Len(word) : IsUpperChar(word[k]) /\ IsAlphaChar(word[k])
    THEN spell_out_acronym(word)
    ELSE word

\* \b between s[i-1] and s[i]: exactly one side is a \w character.
WordBoundary(s, i) ==
    LET left == i > 1 /\ i - 1 <= Len(s) /\ IsWordChar(s[i - 1])
        right == i >= 1 /\ i <= Len(s) /\ IsWordChar(s[i])
    IN  left # right

RECURSIVE ClassRunEnd(_, _)
\* The index after the characters that [...]+ matches from index i of s.
ClassRunEnd(s, i) ==
    IF i <= Len(s) /\ s[i] \in AcronymClass THEN ClassRunEnd(s, i + 1) ELSE i

RECURSIVE AcronymPassFrom(_, _)
\* re.sub(r'\b[...]+\b', replace_acronym, s), from index i on.  A match
\* starts at a capital at \b and is the whole run of capitals, if that
\* ends at \b: a shorter run never does, its next character being a
\* capital, and no match starts inside a run.
AcronymPassFrom(s, i) ==
    LET starts == {k \in i..Len(s) :
                      s[k] \in AcronymClass /\ WordBoundary(s, k)}
    IN  IF starts = {} THEN SubSeq(s, i, Len(s))
        ELSE LET a == Min(starts)
                 j == ClassRunEnd(s, a)
                 run == SubSeq(s, a, j - 1)
             IN  SubSeq(s, i, a - 1)
                     \o (IF WordBoundary(s, j) THEN replace_acronym(run)
                         ELSE run)
                     \o AcronymPassFrom(s, j)

\* The value process_acronyms_in_text(s) returns.
AcronymPass(s) == AcronymPassFrom(s, 1)

\* A call of process_acronyms_in_text(atext).
process_acronyms_in_text ==
    /\ apc = "call"
    /\ aout' = AcronymPass(atext)
    /\ apc' = "done"
    /\ UNCHANGED atext
    /\ UNCHANGED notAcrVars

(***************************************************************************)
(* The inputs of process_acronyms_in_text: every string of at most        *)
(* MaxChars characters of AcrAlphabet, and the texts of the tests.        *)
(***************************************************************************)
\* Two Latin capitals, a Cyrillic capital with a name and one without, a
\* small letter, a digit, the underscore, a space and a full stop.
AcrAlphabet == {"U", "W", "U+041D", "U+0429", "a", "1", "_", " ", "."}

\* 'Men USA da yashayman'
MenUSA ==
    <<"M", "e", "n", " ", "U", "S", "A", " ", "d", "a", " ",
      "y", "a", "s", "h", "a", "y", "m", "a", "n">>

\* 'NATO' in Cyrillic capitals.
CyrillicNATO == <<"U+041D", "U+0410", "U+0422", "U+041E">>

AcrTexts == StringsOver(AcrAlphabet) \cup {MenUSA, CyrillicNATO}

InitAcr ==
    /\ IdleSplit /\ IdleNum /\ IdleConv /\ IdleTrans /\ IdlePipe
    /\ IdleProc /\ IdleSub /\ IdlePay
    /\ atext \in AcrTexts /\ aout = <<>> /\ apc = "call"

NextAcr == process_acronyms_in_text

SpecAcr == InitAcr /\ [][NextAcr]_vars

(***************************************************************************)
(* Claims on process_acronyms_in_text                                      *)
(***************************************************************************)
AcrReturned == apc = "done"

\* s[k] is a letter; no character stands outside the text.
LetterAt(s, k) == k >= 1 /\ k <= Len(s) /\ IsAlphaChar(s[k])

\* The maximal runs of letters of s, <<i, j>> for the run i..j-1: no letter
\* stands next to them.
LetterRuns(s) ==
    {ij \in (1..Len(s)) \X (2..(Len(s) + 1)) :
        /\ ij[1] < ij[2]
        /\ \A k \in ij[1]..(ij[2] - 1) : IsAlphaChar(s[k])
        /\ ~LetterAt(s, ij[1] - 1)
        /\ ~LetterAt(s, ij[2])}

\* The text around the run ij with what process_acronyms_in_text makes of
\* it, and middle in the place of the run.
AroundRun(s, ij, middle) ==
    AcronymPass(SubSeq(s, 1, ij[1] - 1)) \o middle
        \o AcronymPass(SubSeq(s, ij[2], Len(s)))

\* C15: every maximal run of two or more capitals, Latin A-Z or Cyrillic,
\* whose neighbours are not letters (the text boundary, whitespace,
\* punctuation, a digit or an underscore) is replaced by the spoken names of
\* its letters joined with single hyphens.
C15_CapitalRunsSpelled ==
    AcrReturned =>
        \A ij \in LetterRuns(atext) :
            LET run == SubSeq(atext, ij[1], ij[2] - 1)
            IN  (/\ Len(run) >= 2
                 /\ \A k \in 1..Len(run) : run[k] \in AcronymClass)
                => aout = AroundRun(atext, ij, spell_out_acronym(run))

\* C16: a single capital standing alone and a word that holds a small
\* letter are left as they are, and a text without two capitals in a row is
\* returned identical to the input.
C16_OthersLeftAlone ==
    AcrReturned =>
        /\ \A ij \in LetterRuns(atext) :
              LET run == SubSeq(atext, ij[1], ij[2] - 1)
              IN  (\/ Len(run) = 1 /\ IsUpperChar(run[1])
                   \/ \E k \in 1..Len(run) : ~IsUpperChar(run[k]))
                  => aout = AroundRun(atext, ij, run)
        /\ (\A k \in 1..(Len(atext) - 1) :
                ~(IsUpperChar(atext[k]) /\ IsUpperChar(atext[k + 1])))
           => aout = atext

\* 'Men USA da yashayman': the mixed word 'Men' stays, the run 'USA' is
\* spelled.
C16_Witness ==
    /\ AcrReturned
    /\ atext = MenUSA
    /\ aout = <<"M", "e", "n", " ">>
                \o <<"U+0443", "-", "U+044D", "U+0441", "-", "U+0430">>
                \o SubSeq(MenUSA, 8, Len(MenUSA))
    /\ <<1, 4>> \in LetterRuns(atext)

(***************************************************************************)
(* bot/transliterate.py                                                    *)
(***************************************************************************)
\* LATIN_TO_CYRILLIC.items(): the pairs <<latin, cyrillic>> in the order of
\* the dictionary.
LATIN_TO_CYRILLIC ==
    <<
      <<<<"s", "h">>, <<"U+0448">>>>,
      <<<<"c", "h">>, <<"U+0447">>>>,
      <<<<"n", "g">>, <<"U+043D", "U+0433">>>>,
      <<<<"g", "h">>, <<"U+0493">>>>,
      <<<<"o", "'">>, <<"U+045E">>>>,
      <<<<"g", "'">>, <<"U+0493">>>>,
      <<<<"y", "o">>, <<"U+0451">>>>,
      <<<<"y", "a">>, <<"U+044F">>>>,
      <<<<"y", "e">>, <<"U+0435">>>>,
      <<<<"S", "h">>, <<"U+0428">>>>,
      <<<<"C", "h">>, <<"U+0427">>>>,
      <<<<"N", "g">>, <<"U+041D", "U+0433">>>>,
      <<<<"G", "h">>, <<"U+0492">>>>,
      <<<<"O", "'">>, <<"U+040E">>>>,
      <<<<"G", "'">>, <<"U+0492">>>>,
      <<<<"Y", "o">>, <<"U+0401">>>>,
      <<<<"Y", "a">>, <<"U+042F">>>>,
      <<<<"Y", "e">>, <<"U+0415">>>>,
      <<<<"S", "H">>, <<"U+0428">>>>,
      <<<<"C", "H">>, <<"U+0427">>>>,
      <<<<"N", "G">>, <<"U+041D", "U+0413">>>>,
      <<<<"G", "H">>, <<"U+0492">>>>,
      <<<<"Y", "O">>, <<"U+0401">>>>,
      <<<<"Y", "A">>, <<"U+042F">>>>,
      <<<<"Y", "E">>, <<"U+0415">>>>,
      <<<<"a">>, <<"U+0430">>>>,
      <<<<"b">>, <<"U+0431">>>>,
      <<<<"d">>, <<"U+0434">>>>,
      <<<<"e">>, <<"U+0435">>>>,
      <<<<"f">>, <<"U+0444">>>>,
      <<<<"g">>, <<"U+0433">>>>,
      <<<<"h">>, <<"U+04B3">>>>,
      <<<<"i">>, <<"U+0438">>>>,
      <<<<"j">>, <<"U+0436">>>>,
      <<<<"k">>, <<"U+043A">>>>,
      <<<<"l">>, <<"U+043B">>>>,
      <<<<"m">>, <<"U+043C">>>>,
      <<<<"n">>, <<"U+043D">>>>,
      <<<<"o">>, <<"U+043E">>>>,
      <<<<"p">>, <<"U+043F">>>>,
      <<<<"q">>, <<"U+049B">>>>,
      <<<<"r">>, <<"U+0440">>>>,
      <<<<"s">>, <<"U+0441">>>>,
      <<<<"t">>, <<"U+0442">>>>,
      <<<<"u">>, <<"U+0443">>>>,
      <<<<"v">>, <<"U+0432">>>>,
      <<<<"x">>, <<"U+0445">>>>,
      <<<<"y">>, <<"U+0439">>>>,
      <<<<"z">>, <<"U+0437">>>>,
      <<<<"A">>, <<"U+0410">>>>,
      <<<<"B">>, <<"U+0411">>>>,
      <<<<"D">>, <<"U+0414">>>>,
      <<<<"E">>, <<"U+0415">>>>,
      <<<<"F">>, <<"U+0424">>>>,
      <<<<"G">>, <<"U+0413">>>>,
      <<<<"H">>, <<"U+04B2">>>>,
      <<<<"I">>, <<"U+0418">>>>,
      <<<<"J">>, <<"U+0416">>>>,
      <<<<"K">>, <<"U+041A">>>>,
      <<<<"L">>, <<"U+041B">>>>,
      <<<<"M">>, <<"U+041C">>>>,
      <<<<"N">>, <<"U+041D">>>>,
      <<<<"O">>, <<"U+041E">>>>,
      <<<<"P">>, <<"U+041F">>>>,
      <<<<"Q">>, <<"U+049A">>>>,
      <<<<"R">>, <<"U+0420">>>>,
      <<<<"S">>, <<"U+0421">>>>,
      <<<<"T">>, <<"U+0422">>>>,
      <<<<"U">>, <<"U+0423">>>>,
      <<<<"V">>, <<"U+0412">>>>,
      <<<<"X">>, <<"U+0425">>>>,
      <<<<"Y">>, <<"U+0419">>>>,
      <<<<"Z">>, <<"U+0417">>>>
    >>

\* apostrophe_variants of line 117: the ASCII apostrophe three times, the
\* backtick, U+02BB and U+02BC.
ApostropheVariants == <<"'", "'", "'", "U+0060", "U+02BB", "U+02BC">>

RECURSIVE ReplaceFrom(_, _, _, _)
\* s.replace(old, new) from index i on: the occurrences of old from left
\* to right, none overlapping another.
ReplaceFrom(s, i, old, new) ==
    LET found == {k \in i..(Len(s) - Len(old) + 1) :
                     SubSeq(s, k, k + Len(old) - 1) = old}
    IN  IF found = {} THEN SubSeq(s, i, Len(s))
        ELSE LET a == Min(found)
             IN  SubSeq(s, i, a - 1) \o new
                     \o ReplaceFrom(s, a + Len(old), old, new)

\* s.replace(old, new)
Replace(s, old, new) == ReplaceFrom(s, 1, old, new)

\* The standard apostrophe the variants are replaced by.
Apostrophe == "'"

RECURSIVE ReplaceVariants(_, _)
\* Lines 118-119, from the k-th variant on.
ReplaceVariants(s, k) ==
    IF k > Len(ApostropheVariants) THEN s
    ELSE CHOOSE r \in {ReplaceVariants(replaced, k + 1) :
                           replaced \in {Replace(s, <<ApostropheVariants[k]>>,
                                                 <<Apostrophe>>)}} :
             TRUE

RECURSIVE ReplaceRange(_, _, _, _)
\* The replacements of the pairs lo..hi of pairs, one after the other, the
\* first half of the range before the second.
ReplaceRange(s, pairs, lo, hi) ==
    IF lo > hi THEN s
    ELSE IF lo = hi THEN Replace(s, pairs[lo][1], pairs[lo][2])
    ELSE LET mid == (lo + hi) \div 2
         IN  CHOOSE r \in {ReplaceRange(half, pairs, mid + 1, hi) :
                               half \in {ReplaceRange(s, pairs, lo, mid)}} :
                 TRUE

\* One loop over the pairs.
ReplacePairs(s, pairs) == ReplaceRange(s, pairs, 1, Len(pairs))

IsMulti(pair) == Len(pair[1]) > 1
IsSingle(pair) == Len(pair[1]) = 1

\* The three steps of latin_to_cyrillic on a string.
NormalizedApostrophes(s) == ReplaceVariants(s, 1)

\* MultiReplaced that applies the single-character entries instead.
SinglesInsteadOfMulti(s) == ReplacePairs(s, SelectSeq(LATIN_TO_CYRILLIC, IsSingle))

MultiReplaced(s) == ReplacePairs(s, SelectSeq(LATIN_TO_CYRILLIC, IsMulti))
SingleReplaced(s) == ReplacePairs(s, SelectSeq(LATIN_TO_CYRILLIC, IsSingle))

\* The value latin_to_cyrillic(s) returns.
LatinToCyrillic(s) == SingleReplaced(MultiReplaced(NormalizedApostrophes(s)))

\* Lines 113-119.
NormalizeApostrophes ==
    /\ lpc = "call"
    /\ lres' = NormalizedApostrophes(ttext)
    /\ lpc' = "apostrophes_done"
    /\ UNCHANGED <<ttext, dres, dpc>>
    /\ UNCHANGED notTransVars

\* Lines 123-125.
ReplaceMulti ==
    /\ lpc = "apostrophes_done"
    /\ lres' = MultiReplaced(lres)
    /\ lpc' = "multi_done"
    /\ UNCHANGED <<ttext, dres, dpc>>
    /\ UNCHANGED notTransVars

\* Lines 128-132.
ReplaceSingle ==
    /\ lpc = "multi_done"
    /\ lres' = SingleReplaced(lres)
    /\ lpc' = "done"
    /\ UNCHANGED <<ttext, dres, dpc>>
    /\ UNCHANGED notTransVars

latin_to_cyrillic == NormalizeApostrophes \/ ReplaceMulti \/ ReplaceSingle

\* The characters of U+0400..U+04FF.
CyrillicBlock == CyrillicUpper \cup CyrillicLower \cup OtherUpper

\* c.isalpha() and 'a' <= c.lower() <= 'z'
IsLatinLetter(c) == c \in LatinUpper \cup LatinLower \cup LowersIntoLatin

\* cyrillic_count and latin_count of lines 146-147.
cyrillic_count(s) == Cardinality({k \in 1..Len(s) : s[k] \in CyrillicBlock})
latin_count(s) == Cardinality({k \in 1..Len(s) : IsLatinLetter(s[k])})

\* The test of line 150 with the tie counted as Latin.
DetectsLatinOnTie(s) == latin_count(s) >= cyrillic_count(s)

\* The test of line 150 without the count of the Cyrillic characters.
DetectsAnyLatin(s) == latin_count(s) > 0

\* The test of line 150.
DetectsLatin(s) == latin_count(s) > cyrillic_count(s)

\* The pair transliterate_if_latin(s) returns.
TransliterateIfLatin(s) ==
    IF DetectsLatin(s) THEN <<LatinToCyrillic(s), TRUE>> ELSE <<s, FALSE>>

\* Lines 150-154.
TransliterateLatin ==
    /\ dpc = "call"
    /\ DetectsLatin(ttext)
    /\ dres' = <<LatinToCyrillic(ttext), TRUE>>
    /\ dpc' = "done"
    /\ UNCHANGED <<ttext, lres, lpc>>
    /\ UNCHANGED notTransVars

\* Lines 155-157.
KeepCyrillic ==
    /\ dpc = "call"
    /\ ~DetectsLatin(ttext)
    /\ dres' = <<ttext, FALSE>>
    /\ dpc' = "done"
    /\ UNCHANGED <<ttext, lres, lpc>>
    /\ UNCHANGED notTransVars

transliterate_if_latin == TransliterateLatin \/ KeepCyrillic

(***************************************************************************)
(* The inputs of latin_to_cyrillic and transliterate_if_latin: every      *)
(* string of at most MaxChars characters of TransAlphabet, and the word   *)
(* o'zbek written with each apostrophe.  Either function is called.       *)
(***************************************************************************)
TransAlphabet == {"o", "s", "h", "U+0431", "1", " ", "U+0060"}

\* The apostrophes of the word: U+0027, U+2018, U+2019, U+0060, U+02BB,
\* U+02BC.
Apostrophes == {"'", "U+2018", "U+2019", "U+0060", "U+02BB", "U+02BC"}

\* 'o' + v + 'zbek'
Ozbek(v) == <<"o", v, "z", "b", "e", "k">>

\* The keys of the table of more than one character.
MultiKeys ==
    {LATIN_TO_CYRILLIC[k][1] : k \in {j \in 1..Len(LATIN_TO_CYRILLIC) :
                                         IsMulti(LATIN_TO_CYRILLIC[j])}}

\* Each of them between two letters i, "yo'l", where 'yo' and "o'" share the
\* o, and 'ngh', where 'ng' and 'gh' share the g.
DigraphTexts ==
    {<<"i">> \o key \o <<"i">> : key \in MultiKeys}
        \cup {<<"y", "o", "'", "l">>, <<"n", "g", "h">>}

\* The Kelvin sign alone, and the capital I with a dot above among Cyrillic
\* letters.
KelvinTexts == {<<"U+212A">>, <<"U+0130", "U+0431">>, <<"U+0431", "U+0130", "U+0431">>}

TransTexts ==
    StringsOver(TransAlphabet) \cup {Ozbek(v) : v \in Apostrophes}
        \cup DigraphTexts \cup KelvinTexts

InitTrans ==
    /\ IdleSplit /\ IdleNum /\ IdleConv /\ IdleAcr /\ IdlePipe
    /\ IdleProc /\ IdleSub /\ IdlePay
    /\ ttext \in TransTexts /\ lres = <<>> /\ dres = <<<<>>, FALSE>>
    /\ \E called \in {<<"call", "idle">>, <<"idle", "call">>} :
          lpc = called[1] /\ dpc = called[2]

NextTrans == latin_to_cyrillic \/ transliterate_if_latin

SpecTrans == InitTrans /\ [][NextTrans]_vars

(***************************************************************************)
(* Claims on latin_to_cyrillic and transliterate_if_latin                  *)
(***************************************************************************)
LatinToCyrillicReturned == lpc = "done"
TransliterateIfLatinReturned == dpc = "done"

\* 'o'zbek' in Cyrillic letters: U+045E, ze, be, ie, ka.
OzbekCyrillic == <<"U+045E", "U+0437", "U+0431", "U+0435", "U+043A">>

\* C17: whichever apostrophe the word is written with (U+0027, U+2018,
\* U+2019, U+0060, U+02BB, U+02BC), latin_to_cyrillic('o' + v + 'zbek')
\* is the same Cyrillic word.
C17_ApostrophesAgree ==
    LatinToCyrillicReturned =>
        \A v \in Apostrophes : ttext = Ozbek(v) => lres = OzbekCyrillic

\* No character of s is an ASCII Latin letter.
NoLatinLetter(s) == \A k \in 1..Len(s) : s[k] \notin LatinUpper \cup LatinLower

\* No character of s is an ASCII Latin letter, U+0130 or U+212A.
NoLetterCountedLatin(s) ==
    \A k \in 1..Len(s) :
        s[k] \notin LatinUpper \cup LatinLower \cup {"U+0130", "U+212A"}

OtherApostrophes == {"U+0060", "U+02BB", "U+02BC"}

C20_TieCountsAsLatin ==
    LET latin == Cardinality({k \in 1..Len(ttext) :
                                 ttext[k] \in LatinUpper \cup LatinLower})
        cyrillic == Cardinality({k \in 1..Len(ttext) :
                                    ttext[k] \in CyrillicBlock})
    IN  (TransliterateIfLatinReturned /\ latin = cyrillic /\ latin >= 1)
            => dres = <<LatinToCyrillic(ttext), TRUE>>

\* C20 as amended: transliterate_if_latin transliterates the text and
\* returns was_latin = True exactly when the letters it counts as Latin
\* (the ASCII Latin letters, U+0130 and U+212A) are more than the
\* characters of U+0400..U+04FF; on a tie, as when the Cyrillic characters
\* are more, it returns the text unchanged and was_latin = False.
C20_StrictMajorityDecides ==
    TransliterateIfLatinReturned =>
        LET latin == Cardinality({k \in 1..Len(ttext) :
                                     ttext[k] \in LatinUpper \cup LatinLower
                                                      \cup {"U+0130", "U+212A"}})
            cyrillic == Cardinality({k \in 1..Len(ttext) :
                                        ttext[k] \in CyrillicBlock})
        IN  /\ latin > cyrillic => dres = <<LatinToCyrillic(ttext), TRUE>>
            /\ latin <= cyrillic => dres = <<ttext, FALSE>>

\* The tie of one Latin and one Cyrillic letter.
C20_Witness ==
    /\ TransliterateIfLatinReturned
    /\ ttext = <<"o", "U+0431">>
    /\ latin_count(ttext) = cyrillic_count(ttext)
    /\ dres = <<ttext, FALSE>>

(***************************************************************************)
(* bot/tts_engine.py: the normalization pipeline of _generate_speech       *)
(***************************************************************************)
\* Line 124: text_with_acronyms = process_acronyms_in_text(text)
PipeAcronyms ==
    /\ ppc = "acronyms"
    /\ pacr' = AcronymPass(ptext)
    /\ ppc' = "numbers"
    /\ UNCHANGED <<ptext, pnum, pcyr, pwas>>
    /\ UNCHANGED notPipeVars

\* Line 129: text_with_words = convert_numbers_in_text(text_with_acronyms)
PipeNumbers ==
    /\ ppc = "numbers"
    /\ ConvertNumbers(pacr) # ValueError
    /\ pnum' = ConvertNumbers(pacr)
    /\ ppc' = "translit"
    /\ UNCHANGED <<ptext, pacr, pcyr, pwas>>
    /\ UNCHANGED notPipeVars

\* Line 129, where convert_numbers_in_text raises.
PipeNumbersRaise ==
    /\ ppc = "numbers"
    /\ ConvertNumbers(pacr) = ValueError
    /\ ppc' = "raised"
    /\ UNCHANGED <<ptext, pacr, pnum, pcyr, pwas>>
    /\ UNCHANGED notPipeVars

\* Line 134: cyrillic_text, was_latin = transliterate_if_latin(text_with_words)
PipeTransliterate ==
    /\ ppc = "translit"
    /\ pcyr' = TransliterateIfLatin(pnum)[1]
    /\ pwas' = TransliterateIfLatin(pnum)[2]
    /\ ppc' = "done"
    /\ UNCHANGED <<ptext, pacr, pnum>>
    /\ UNCHANGED notPipeVars

normalization_pipeline ==
    PipeAcronyms \/ PipeNumbers \/ PipeNumbersRaise \/ PipeTransliterate

(***************************************************************************)
(* The inputs of the pipeline: every string of at most MaxChars           *)
(* characters of PipeAlphabet.                                            *)
(***************************************************************************)
\* A Latin capital, a Latin letter without a table entry and one with, a
\* Cyrillic letter, a digit, the long run of digits and a full stop.
PipeAlphabet == {"U", "c", "s", "U+0431", "3", LongDigits, "."}

PipeTexts == StringsOver(PipeAlphabet)

InitPipe ==
    /\ IdleSplit /\ IdleNum /\ IdleConv /\ IdleAcr /\ IdleTrans
    /\ IdleProc /\ IdleSub /\ IdlePay
    /\ ptext \in PipeTexts /\ pacr = <<>> /\ pnum = <<>> /\ pcyr = <<>>
    /\ pwas = FALSE /\ ppc = "acronyms"

NextPipe == normalization_pipeline

SpecPipe == InitPipe /\ [][NextPipe]_vars

(***************************************************************************)
(* Claims on the pipeline                                                  *)
(***************************************************************************)
PipeReturned == ppc = "done"

\* C18: for every input text the string the pipeline produces holds no
\* ASCII Latin letter and no digit: only Cyrillic letters, spaces and
\* punctuation.
C18_OutputIsCyrillic ==
    PipeReturned =>
        \A k \in 1..Len(pcyr) :
            /\ pcyr[k] \notin LatinUpper \cup LatinLower
            /\ pcyr[k] \notin DigitChars

(***************************************************************************)
(* Further properties of split_text.                                       *)
(***************************************************************************)
\* The loop is about to take a sentence unit that is not longer than the
\* ceiling.
AtSentenceUnit ==
    pc = "loop" /\ sentences # <<>> /\ StrLen(Head(sentences)) <= Ceiling

RECURSIVE ConcatChunks(_, _, _)
ConcatChunks(cks, i, j) ==
    IF i > j THEN <<>> ELSE Concat(cks[i], ConcatChunks(cks, i + 1, j))

\* The chunks i .. i + ceil(L / c) - 1 of cks are the word w of length L cut
\* every c characters: each of c characters but the last, which has the rest.
SlicesAt(cks, i, w, c) ==
    LET L == StrLen(w)
        k == (L + c - 1) \div c
    IN  /\ i + k - 1 <= Len(cks)
        /\ \A j \in 0..(k - 2) : StrLen(cks[i + j]) = c
        /\ StrLen(cks[i + k - 1]) = L - (k - 1) * c
        /\ ConcatChunks(cks, i, i + k - 1) = w

RECURSIVE WordsOfChunks(_, _)
WordsOfChunks(cks, i) ==
    IF i > Len(cks) THEN <<>>
    ELSE SplitWords(cks[i]) \o WordsOfChunks(cks, i + 1)

\* The words rs are words of ts in the order of ts, where a word of ts that
\* is longer than c may appear as consecutive pieces of itself and a word of
\* ts may be absent.  cut says that the first word of ts is what is left of
\* a word longer than c.
RECURSIVE UncutWords(_, _, _, _)
UncutWords(rs, ts, c, cut) ==
    IF rs = <<>> THEN TRUE
    ELSE IF ts = <<>> THEN FALSE
    ELSE LET r == Head(rs)
             t == Head(ts)
         IN  \/ r = t /\ UncutWords(Tail(rs), Tail(ts), c, FALSE)
             \/ /\ cut \/ StrLen(t) > c
                /\ StrLen(r) < StrLen(t)
                /\ Take(t, StrLen(r)) = r
                /\ UncutWords(Tail(rs), <<Drop(t, StrLen(r))>> \o Tail(ts), c, TRUE)
             \/ UncutWords(rs, Tail(ts), c, FALSE)

\* C25: no returned chunk begins or ends inside a word of the text: the
\* words of the returned chunks are whole words of the text, in its order,
\* except for the words that are longer than the ceiling, which may come in
\* pieces.
C25_NoCutInsideWord ==
    Returned =>
        UncutWords(WordsOfChunks(result, 1), SplitWords(text), Ceiling, FALSE)

\* Three chunks have been returned for a text none of whose words is longer
\* than the ceiling.
C25_Witness ==
    /\ Returned
    /\ Len(result) >= 3
    /\ LongestWord(text) <= Ceiling
    /\ LongestWord(text) >= 600

\* C28: no returned chunk is longer than c + 1999 characters, c the
\* ceiling: the chunk being built exceeds the ceiling only after one unit of
\* at most c characters was added to fewer than 2000 characters, and no
\* unit is added to a chunk that exceeds the ceiling.
C28_ChunkAtMostCeilingPlus1999 ==
    /\ Returned =>
           \A i \in 1..Len(result) : StrLen(result[i]) <= Ceiling + 1999
    /\ (pc = "loop" /\ StrLen(current_chunk) > Ceiling) =>
           /\ cur_origin.before < 2000
           /\ StrLen(current_chunk) - cur_origin.before <= Ceiling
           /\ sentences # <<>> => ~ENABLED ExtendPastLimit /\ ~ENABLED AppendSentence

\* A chunk more than 100 characters longer than the ceiling has been
\* returned, made of a chunk of 600 to 1999 characters and one more unit.
C28_Witness ==
    /\ Returned
    /\ \E i \in 1..Len(result) :
           /\ StrLen(result[i]) > Ceiling + 100
           /\ origin[i].before >= 600
           /\ origin[i].before < 2000

(***************************************************************************)
(* Further claims on convert_numbers_in_text                               *)
(***************************************************************************)
\* int() parses every digit run of s: s holds no run of more than 4300
\* digits.
AllRunsParse(s) == \A k \in 1..Len(s) : s[k] # LongDigits

HasDigit(s) == \E k \in 1..Len(s) : s[k] \in DigitChars

\* C26: for a text all of whose digit runs int() parses the call returns,
\* and what it returns holds no digit; a text without a digit is returned
\* as it is.
C26_NoDigitLeft ==
    /\ (cpc \in {"done", "raised"} /\ AllRunsParse(ctext)) =>
           /\ ConvReturned
           /\ ~HasDigit(cout)
    /\ (ConvReturned /\ ~HasDigit(ctext)) => cout = ctext

\* 'x3.0' has been converted: a run next to a letter, with digits on both
\* sides of the separator.
C26_Witness ==
    /\ ConvReturned
    /\ ctext = <<"x", "3", ".", "0">>
    /\ cout = <<"x">> \o Chars(<<"uch">>) \o <<" ">> \o Chars(<<"nol">>)

(***************************************************************************)
(* Further claims on latin_to_cyrillic                                     *)
(***************************************************************************)
\* The target of the table entry with the key key.
TargetOf(key) ==
    LATIN_TO_CYRILLIC[CHOOSE k \in 1..Len(LATIN_TO_CYRILLIC) :
                          LATIN_TO_CYRILLIC[k][1] = key][2]

SingleKeys ==
    {LATIN_TO_CYRILLIC[k][1] : k \in {j \in 1..Len(LATIN_TO_CYRILLIC) :
                                         IsSingle(LATIN_TO_CYRILLIC[j])}}

\* A multi-character key is at index i of s.
DigraphAt(s, i) == i < Len(s) /\ SubSeq(s, i, i + 1) \in MultiKeys

\* No two occurrences of multi-character keys in s share a character.
NoOverlap(s) == \A i \in 1..Len(s) : ~(DigraphAt(s, i) /\ DigraphAt(s, i + 1))

\* s with U+0060, U+02BB and U+02BC written as the ASCII apostrophe.
AsciiApostrophes(s) ==
    [k \in 1..Len(s) |-> IF s[k] \in OtherApostrophes THEN "'" ELSE s[k]]

RECURSIVE DigraphsFirst(_, _)
\* s from index i on, read from left to right: a multi-character key gives
\* its target, any other character its single-character target, or itself
\* when it has none.
DigraphsFirst(s, i) ==
    IF i > Len(s) THEN <<>>
    ELSE IF DigraphAt(s, i)
         THEN TargetOf(SubSeq(s, i, i + 1)) \o DigraphsFirst(s, i + 2)
         ELSE (IF <<s[i]>> \in SingleKeys THEN TargetOf(<<s[i]>>) ELSE <<s[i]>>)
                  \o DigraphsFirst(s, i + 1)

\* The phases follow one another: apostrophes, multi-character entries,
\* single-character entries.
PhasesInOrder ==
    lpc' # lpc =>
        <<lpc, lpc'>> \in {<<"call", "apostrophes_done">>,
                           <<"apostrophes_done", "multi_done">>,
                           <<"multi_done", "done">>}

\* When the multi-character entries are applied no apostrophe variant is
\* left, and when the single-character entries are applied no
\* multi-character key is left.
EarlierPhaseComplete ==
    /\ lpc = "apostrophes_done" =>
           \A k \in 1..Len(lres) : lres[k] \notin OtherApostrophes
    /\ lpc = "multi_done" => \A i \in 1..Len(lres) : ~DigraphAt(lres, i)

\* C27: the three phases run in this order, each over the whole string, so
\* no single-character entry is applied to a string that still holds a
\* multi-character key; and in a text whose multi-character keys do not
\* overlap each of them is rendered as its own target, every other
\* character as its single-character target.
C27_MultiBeforeSingle ==
    /\ [][PhasesInOrder]_vars
    /\ [](EarlierPhaseComplete)
    /\ []((LatinToCyrillicReturned /\ NoOverlap(AsciiApostrophes(ttext)))
              => lres = DigraphsFirst(AsciiApostrophes(ttext), 1))

\* 'ishi' has been transliterated: i, sha, i.
C27_Witness ==
    /\ LatinToCyrillicReturned
    /\ ttext = <<"i", "s", "h", "i">>
    /\ lres = <<"U+0438", "U+0448", "U+0438">>

(***************************************************************************)
(* bot/text_processor.py and handle_channel_post of bot/handlers.py        *)
(*                                                                         *)
(* The line feed is named "U+000A".                                        *)
(***************************************************************************)
\* trigger_hashtag of bot/config.py: '#audio'
TriggerHashtag == <<"#", "a", "u", "d", "i", "o">>

\* The capital letters that str.lower() changes into one other character.
Capitals == LatinUpper \cup CyrillicUpper \cup OtherUpper

\* str.upper() of one character.
Upper(c) ==
    IF \E u \in Capitals : u # c /\ Lower(u) = c
    THEN CHOOSE u \in Capitals : u # c /\ Lower(u) = c
    ELSE c

\* s.lower(), s.upper() and s.capitalize()
LowerStr(s) == [k \in 1..Len(s) |-> Lower(s[k])]
UpperStr(s) == [k \in 1..Len(s) |-> Upper(s[k])]
Capitalize(s) == [k \in 1..Len(s) |-> IF k = 1 THEN Upper(s[k]) ELSE Lower(s[k])]

\* sub in s
Contains(s, sub) ==
    \E k \in 1..(Len(s) - Len(sub) + 1) : SubSeq(s, k, k + Len(sub) - 1) = sub

\* The characters str.split() and str.strip() take for whitespace.
WhitespaceChars == {" ", "U+000A"}

RECURSIVE JoinSplitFrom(_, _)
\* ' '.join(s.split()), from index i on.
JoinSplitFrom(s, i) ==
    LET black == {k \in i..Len(s) : s[k] \notin WhitespaceChars}
    IN  IF black = {} THEN <<>>
        ELSE LET a == Min(black)
                 white == {k \in a..Len(s) : s[k] \in WhitespaceChars}
                 e == IF white = {} THEN Len(s) + 1 ELSE Min(white)
                 rest == JoinSplitFrom(s, e)
             IN  SubSeq(s, a, e - 1)
                     \o (IF rest = <<>> THEN <<>> ELSE <<" ">> \o rest)

JoinSplit(s) == JoinSplitFrom(s, 1)

\* s.strip()
StripChars(s) ==
    LET black == {k \in 1..Len(s) : s[k] \notin WhitespaceChars}
    IN  IF black = {} THEN <<>>
        ELSE SubSeq(s, Min(black), CHOOSE j \in black : \A k \in black : k <= j)

RECURSIVE CollapsePeriods(_)
\* Lines 38-39: while '..' in result: result = result.replace('..', '.')
CollapsePeriods(s) ==
    IF Contains(s, <<".", ".">>)
    THEN CollapsePeriods(Replace(s, <<".", ".">>, <<".">>))
    ELSE s

\* Lines 25-28: the hashtag as given, in capitals, in small letters and
\* capitalized is replaced by the empty string, one after the other.
RemoveSpellings(s, hashtag) ==
    Replace(Replace(Replace(Replace(s, hashtag, <<>>),
                            UpperStr(hashtag), <<>>),
                    LowerStr(hashtag), <<>>),
            Capitalize(hashtag), <<>>)

\* Lines 25-44 of remove_hashtag.
RemoveHashtag(s, hashtag) ==
    LET removed == RemoveSpellings(s, hashtag)
        periods == Replace(Replace(removed, <<"U+000A">>, <<".", " ">>),
                           <<"U+000D">>, <<".", " ">>)
        joined == JoinSplit(periods)
        collapsed == CollapsePeriods(joined)
    IN  StripChars(Replace(collapsed, <<".", " ", ".", " ">>, <<".", " ">>))

\* Lines 84-93 of validate_text.
ValidateText(s) ==
    /\ s # <<>> /\ StripChars(s) # <<>>
    /\ \E k \in 1..Len(s) : IsAlphaChar(s[k])

\* Lines 59-70: the value detect_script(s) returns.
DetectScript(s) ==
    IF cyrillic_count(s) > latin_count(s) THEN "Cyrillic"
    ELSE IF latin_count(s) > 0 THEN "Latin"
    ELSE "Unknown"

\* Lines 65-66.
DetectCyrillic ==
    /\ spc = "call"
    /\ cyrillic_count(stext) > latin_count(stext)
    /\ sres' = "Cyrillic"
    /\ spc' = "done"
    /\ UNCHANGED <<stext, mtext, mbot, mclean, mscript, mres, mpc>>
    /\ UNCHANGED notProcVars

\* Lines 67-68.
DetectLatin ==
    /\ spc = "call"
    /\ ~(cyrillic_count(stext) > latin_count(stext))
    /\ latin_count(stext) > 0
    /\ sres' = "Latin"
    /\ spc' = "done"
    /\ UNCHANGED <<stext, mtext, mbot, mclean, mscript, mres, mpc>>
    /\ UNCHANGED notProcVars

\* Lines 69-70.
DetectUnknown ==
    /\ spc = "call"
    /\ ~(cyrillic_count(stext) > latin_count(stext))
    /\ ~(latin_count(stext) > 0)
    /\ sres' = "Unknown"
    /\ spc' = "done"
    /\ UNCHANGED <<stext, mtext, mbot, mclean, mscript, mres, mpc>>
    /\ UNCHANGED notProcVars

detect_script == DetectCyrillic \/ DetectLatin \/ DetectUnknown

\* handlers.py lines 32-34: a message from a bot is ignored.
IgnoreBot ==
    /\ mpc = "entry"
    /\ mbot
    /\ mpc' = "ignored"
    /\ UNCHANGED <<stext, sres, spc, mtext, mbot, mclean, mscript, mres>>
    /\ UNCHANGED notProcVars

\* handlers.py lines 40-42: a message without the hashtag, compared in small
\* letters, is ignored.
IgnoreWithoutHashtag ==
    /\ mpc = "entry"
    /\ ~mbot
    /\ mtext = <<>> \/ ~Contains(LowerStr(mtext), LowerStr(TriggerHashtag))
    /\ mpc' = "ignored"
    /\ UNCHANGED <<stext, sres, spc, mtext, mbot, mclean, mscript, mres>>
    /\ UNCHANGED notProcVars

\* handlers.py line 50 and text_processor.py line 108: the message is
\* accepted and process_text removes the hashtag.
CleanText ==
    /\ mpc = "entry"
    /\ ~mbot
    /\ ~(mtext = <<>> \/ ~Contains(LowerStr(mtext), LowerStr(TriggerHashtag)))
    /\ mclean' = RemoveHashtag(mtext, TriggerHashtag)
    /\ mpc' = "validate"
    /\ UNCHANGED <<stext, sres, spc, mtext, mbot, mscript, mres>>
    /\ UNCHANGED notProcVars

\* text_processor.py lines 111-112 and handlers.py lines 52-54: the cleaned
\* text is not valid, process_text returns None and the post is skipped.
SkipInvalid ==
    /\ mpc = "validate"
    /\ ~ValidateText(mclean)
    /\ mpc' = "skipped"
    /\ UNCHANGED <<stext, sres, spc, mtext, mbot, mclean, mscript, mres>>
    /\ UNCHANGED notProcVars

\* text_processor.py lines 115-118: the script is logged and the cleaned
\* text returned.
ReturnCleaned ==
    /\ mpc = "validate"
    /\ ValidateText(mclean)
    /\ mscript' = DetectScript(mclean)
    /\ mres' = mclean
    /\ mpc' = "queue"
    /\ UNCHANGED <<stext, sres, spc, mtext, mbot, mclean>>
    /\ UNCHANGED notProcVars

\* handlers.py lines 57-70: the request is queued.
QueueRequest ==
    /\ mpc = "queue"
    /\ mpc' = "queued"
    /\ UNCHANGED <<stext, sres, spc, mtext, mbot, mclean, mscript, mres>>
    /\ UNCHANGED notProcVars

\* handlers.py lines 72-76: queue_tts_request raised, the error is logged.
QueueFails ==
    /\ mpc = "queue"
    /\ mpc' = "failed"
    /\ UNCHANGED <<stext, sres, spc, mtext, mbot, mclean, mscript, mres>>
    /\ UNCHANGED notProcVars

handle_channel_post ==
    \/ IgnoreBot
    \/ IgnoreWithoutHashtag
    \/ CleanText
    \/ SkipInvalid
    \/ ReturnCleaned
    \/ QueueRequest
    \/ QueueFails

(***************************************************************************)
(* The inputs: detect_script is called with every string of at most       *)
(* MaxChars characters of ScriptAlphabet, handle_channel_post with a post  *)
(* of at most MaxPieces pieces.                                            *)
(***************************************************************************)
\* Two Latin letters, a Cyrillic letter, the Kelvin sign, a digit, a space.
ScriptAlphabet == {"a", "Z", "U+0431", "U+212A", "1", " "}

ScriptTexts == StringsOver(ScriptAlphabet)

MaxPieces == 3

\* '#audio', '#AUDIO', '#Audio' and '#AuDio'
HashtagSpellings ==
    {TriggerHashtag, UpperStr(TriggerHashtag),
     <<"#", "A", "u", "d", "i", "o">>, <<"#", "A", "u", "D", "i", "o">>}

\* The pieces of a post: the hashtag in four spellings, its two halves, a
\* letter, a space, a line feed and a full stop.
Pieces ==
    HashtagSpellings
        \cup {<<"#", "a", "u">>, <<"d", "i", "o">>, <<"x">>, <<" ">>,
              <<"U+000A">>, <<".">>}

RECURSIVE Flatten(_)
Flatten(ps) == IF ps = <<>> THEN <<>> ELSE Head(ps) \o Flatten(Tail(ps))

Posts == {Flatten(ps) : ps \in UNION {[1..n -> Pieces] : n \in 0..MaxPieces}}

InitProc ==
    /\ IdleSplit /\ IdleNum /\ IdleConv /\ IdleAcr /\ IdleTrans /\ IdlePipe
    /\ IdleSub /\ IdlePay
    /\ sres = "" /\ mclean = <<>> /\ mscript = "" /\ mres = <<>>
    /\ \/ /\ stext \in ScriptTexts /\ spc = "call"
          /\ mtext = <<>> /\ mbot = FALSE /\ mpc = "idle"
       \/ /\ mtext \in Posts /\ mbot \in BOOLEAN /\ mpc = "entry"
          /\ stext = <<>> /\ spc = "idle"

NextProc == detect_script \/ handle_channel_post

SpecProc == InitProc /\ [][NextProc]_vars

(***************************************************************************)
(* Claims on detect_script, remove_hashtag and process_text                *)
(***************************************************************************)
DetectScriptReturned == spc = "done"

\* C21: detect_script returns 'Cyrillic' exactly when the characters of
\* U+0400..U+04FF are more than the ASCII Latin letters, 'Latin' exactly
\* when the ASCII Latin letters are at least as many as the Cyrillic
\* characters and at least one, and 'Unknown' exactly when the text has
\* neither.
C21_ScriptByCounts ==
    DetectScriptReturned =>
        LET latin == Cardinality({k \in 1..Len(stext) :
                                     stext[k] \in LatinUpper \cup LatinLower})
            cyrillic == Cardinality({k \in 1..Len(stext) :
                                        stext[k] \in CyrillicBlock})
        IN  /\ sres = "Cyrillic" <=> cyrillic > latin
            /\ sres = "Latin" <=> (latin >= cyrillic /\ latin >= 1)
            /\ sres = "Unknown" <=> (latin = 0 /\ cyrillic = 0)

\* The post was accepted and process_text has removed the hashtag.
HashtagRemoved == mpc \in {"validate", "skipped", "queue", "queued", "failed"}

\* process_text has returned the text of an accepted post.
ProcessTextReturned == mpc \in {"queue", "queued", "failed"}

\* C22: for a post the handler accepts, the text remove_hashtag returns
\* holds the hashtag in no spelling, and neither does the text that
\* process_text returns.
C22_NoHashtagLeft ==
    /\ HashtagRemoved =>
           ~Contains(LowerStr(mclean), LowerStr(TriggerHashtag))
    /\ ProcessTextReturned =>
           ~Contains(LowerStr(mres), LowerStr(TriggerHashtag))

(***************************************************************************)
(* The free tier of a private chat: bot/subscription_middleware.py,       *)
(* services/subscription_service.py, handle_private_message of            *)
(* bot/handlers.py, tasks.py and database/sync_db.py.                      *)
(*                                                                         *)
(* One user without a subscription sends text messages in a private chat   *)
(* within one calendar month.  The bot handles the messages concurrently   *)
(* and Celery workers run the queued tasks concurrently.                   *)
(***************************************************************************)
\* free_tier_tts_limit of bot/config.py
FreeTierTtsLimit == 3

MaxMessages == 4

Messages == 1..MaxMessages

\* The message m is sent.
SendMessage(m) ==
    /\ rpc[m] = "unsent"
    /\ rpc' = [rpc EXCEPT ![m] = "arrived"]
    /\ UNCHANGED <<tts_count, rusage>>
    /\ UNCHANGED notSubVars

\* subscription_service.py lines 88-103 and subscription_middleware.py lines
\* 85-110: the usage of the month has reached the limit, the message is
\* blocked.
BlockMessage(m) ==
    /\ rpc[m] = "arrived"
    /\ tts_count >= FreeTierTtsLimit
    /\ rpc' = [rpc EXCEPT ![m] = "blocked"]
    /\ UNCHANGED <<tts_count, rusage>>
    /\ UNCHANGED notSubVars

\* subscription_service.py lines 105-113 and subscription_middleware.py line
\* 120: within the free tier, the message goes on to the handler.
AdmitMessage(m) ==
    /\ rpc[m] = "arrived"
    /\ ~(tts_count >= FreeTierTtsLimit)
    /\ rpc' = [rpc EXCEPT ![m] = "admitted"]
    /\ UNCHANGED <<tts_count, rusage>>
    /\ UNCHANGED notSubVars

\* handlers.py lines 92-115: a command, an empty text or a text without a
\* letter is not queued.
SkipMessage(m) ==
    /\ rpc[m] = "admitted"
    /\ rpc' = [rpc EXCEPT ![m] = "skipped"]
    /\ UNCHANGED <<tts_count, rusage>>
    /\ UNCHANGED notSubVars

\* handlers.py lines 118-135 and tts_service.py lines 40-64: the request is
\* recorded as pending and its task queued.
QueueTtsRequest(m) ==
    /\ rpc[m] = "admitted"
    /\ rpc' = [rpc EXCEPT ![m] = "pending"]
    /\ UNCHANGED <<tts_count, rusage>>
    /\ UNCHANGED notSubVars

\* tasks.py lines 72-111: a worker takes the task, generates the audio and
\* sends it.
ProcessTask(m) ==
    /\ rpc[m] = "pending"
    /\ rpc' = [rpc EXCEPT ![m] = "processing"]
    /\ UNCHANGED <<tts_count, rusage>>
    /\ UNCHANGED notSubVars

\* tasks.py lines 130-137: the task failed and is retried.
RetryTask(m) ==
    /\ rpc[m] = "processing"
    /\ rpc' = [rpc EXCEPT ![m] = "pending"]
    /\ UNCHANGED <<tts_count, rusage>>
    /\ UNCHANGED notSubVars

\* tasks.py lines 130-137: the task failed and max_retries is used up.
FailTask(m) ==
    /\ rpc[m] = "processing"
    /\ rpc' = [rpc EXCEPT ![m] = "failed"]
    /\ UNCHANGED <<tts_count, rusage>>
    /\ UNCHANGED notSubVars

\* sync_db.py lines 77-104: the session of complete_tts_task_sync reads the
\* usage row of the month.
ReadUsage(m) ==
    /\ rpc[m] = "processing"
    /\ rusage' = [rusage EXCEPT ![m] = tts_count]
    /\ rpc' = [rpc EXCEPT ![m] = "completing"]
    /\ UNCHANGED tts_count
    /\ UNCHANGED notSubVars

\* sync_db.py lines 108-109 and line 39: usage.tts_count += 1 on the value
\* that was read, written at the commit of the session.
CommitUsage(m) ==
    /\ rpc[m] = "completing"
    /\ tts_count' = rusage[m] + 1
    /\ rpc' = [rpc EXCEPT ![m] = "completed"]
    /\ UNCHANGED rusage
    /\ UNCHANGED notSubVars

private_message ==
    \E m \in Messages :
        \/ SendMessage(m)
        \/ BlockMessage(m)
        \/ AdmitMessage(m)
        \/ SkipMessage(m)
        \/ QueueTtsRequest(m)

process_tts_task ==
    \E m \in Messages :
        \/ ProcessTask(m)
        \/ RetryTask(m)
        \/ FailTask(m)
        \/ ReadUsage(m)
        \/ CommitUsage(m)

InitSub ==
    /\ IdleSplit /\ IdleNum /\ IdleConv /\ IdleAcr /\ IdleTrans /\ IdlePipe
    /\ IdleProc /\ IdlePay
    /\ tts_count = 0
    /\ rpc = [m \in Messages |-> "unsent"]
    /\ rusage = [m \in Messages |-> 0]

NextSub == private_message \/ process_tts_task

SpecSub == InitSub /\ [][NextSub]_vars

(***************************************************************************)
(* Claims on the free tier                                                 *)
(***************************************************************************)
\* The requests that were admitted by the subscription check and completed.
Completed == {m \in Messages : rpc[m] = "completed"}

\* C29: the requests of the user that were admitted and completed within
\* the month are never more than free_tier_tts_limit.
C29_CompletedWithinLimit == Cardinality(Completed) <= FreeTierTtsLimit


(***************************************************************************)
(* Manual payments: services/payment_service.py, the admin callbacks of    *)
(* bot/payment_handlers.py and SubscriptionRepository of                   *)
(* database/repository.py.                                                 *)
(*                                                                         *)
(* Users send payment screenshots, every admin receives a message with an  *)
(* Approve and a Reject button for the payment, and the admins press the   *)
(* buttons in any order.  All of this happens within the 30 days of a      *)
(* subscription, so end_date > now holds of every row.                     *)
(***************************************************************************)
MaxUsers == 2

MaxAdmins == 2

MaxPayments == 2

MaxSubscriptions == 3

Users == 1..MaxUsers

\* get_admin_ids of bot/config.py
Admins == 1..MaxAdmins

\* create_payment_record: a row with status 'pending' and no admin.
NewPayment(user_id) ==
    [user_id |-> user_id, status |-> "pending", approved_by_user_id |-> 0]

\* SubscriptionRepository.create: an active row for the user of the payment.
\* The field payment is not a column of the table: it records the payment
\* whose approval created the row.
NewSubscription(payment_id) ==
    [user_id |-> payments[payment_id].user_id, is_active |-> TRUE,
     payment |-> payment_id]

\* The rows that the query of get_active selects for the user.
ActiveRows(user_id) ==
    {i \in 1..Len(subscriptions) :
        subscriptions[i].is_active /\ subscriptions[i].user_id = user_id}

\* SubscriptionRepository.get_active: scalar_one_or_none returns None for
\* no row, the row for one row and raises MultipleResultsFound otherwise.
get_active(user_id) ==
    IF ActiveRows(user_id) = {} THEN "None"
    ELSE IF Cardinality(ActiveRows(user_id)) = 1 THEN "Subscription"
    ELSE "MultipleResultsFound"

\* payment_handlers.py lines 138-145 and payment_service.py lines 45-61: the
\* screenshot of a user is recorded as a pending payment.
create_payment_record(user_id) ==
    /\ Len(payments) < MaxPayments
    /\ payments' = Append(payments, NewPayment(user_id))
    /\ UNCHANGED subscriptions
    /\ UNCHANGED notPayVars

\* payment_service.py lines 78-107: the payment is read, its status set to
\* 'approved' and a subscription created, in one session.
approve_payment(payment_id, approved_by_user_id) ==
    /\ payment_id \in 1..Len(payments)
    /\ Len(subscriptions) < MaxSubscriptions
    /\ payments' = [payments EXCEPT
           ![payment_id].status = "approved",
           ![payment_id].approved_by_user_id = approved_by_user_id]
    /\ subscriptions' = Append(subscriptions, NewSubscription(payment_id))
    /\ UNCHANGED notPayVars

\* payment_service.py lines 125-138: the status is set to 'rejected'.
reject_payment(payment_id, admin_user_id) ==
    /\ payment_id \in 1..Len(payments)
    /\ payments' = [payments EXCEPT
           ![payment_id].status = "rejected",
           ![payment_id].approved_by_user_id = admin_user_id]
    /\ UNCHANGED subscriptions
    /\ UNCHANGED notPayVars

\* payment_handlers.py lines 112-145: a user sends a screenshot.
handle_payment_screenshot == \E u \in Users : create_payment_record(u)

\* payment_handlers.py lines 202-220: an admin presses Approve on the
\* message of a payment.
approve_payment_callback ==
    \E p \in 1..MaxPayments, a \in Admins : approve_payment(p, a)

\* payment_handlers.py lines 257-276: an admin presses Reject on the message
\* of a payment.
reject_payment_callback ==
    \E p \in 1..MaxPayments, a \in Admins : reject_payment(p, a)

InitPay ==
    /\ IdleSplit /\ IdleNum /\ IdleConv /\ IdleAcr /\ IdleTrans /\ IdlePipe
    /\ IdleProc /\ IdleSub
    /\ payments = <<>>
    /\ subscriptions = <<>>

NextPay ==
    \/ handle_payment_screenshot
    \/ approve_payment_callback
    \/ reject_payment_callback

SpecPay == InitPay /\ [][NextPay]_vars

(***************************************************************************)
(* Claims on payments                                                      *)
(***************************************************************************)
\* The subscriptions that the approvals of the payment created.
SubscriptionsOf(payment_id) ==
    {i \in 1..Len(subscriptions) : subscriptions[i].payment = payment_id}

\* The payments of the user.
PaymentsOf(user_id) ==
    {p \in 1..Len(payments) : payments[p].user_id = user_id}

\* C30: a payment is decided at most once: whatever approve and reject calls
\* were made, at most one subscription exists for each payment, and
\* get_active finds at most one active subscription for a user who made one
\* payment.
C30_DecidedAtMostOnce ==
    /\ \A p \in 1..Len(payments) : Cardinality(SubscriptionsOf(p)) <= 1
    /\ \A u \in Users :
           Cardinality(PaymentsOf(u)) <= 1 =>
               get_active(u) # "MultipleResultsFound"

====
